---- MODULE Spec2Model ----
(***************************************************************************)
(* Bidirectional sprint-end detection (the detection module) as a state     *)
(* machine.                                                                *)
(*                                                                         *)
(* Numbers.  The code works on JavaScript numbers.  Here                   *)
(*   - a time is an integer count of ticks, TicksPerSec ticks per second;  *)
(*   - a magnitude is an integer count of 1/MagScale g;                    *)
(*   - every derived quantity (a mean, a median, a threshold, a rate, an   *)
(*     averaged time) is an exact fraction <<num, den>> with den > 0;      *)
(*   - an absent rolling slot (null) is Null;                              *)
(*   - n / 0 (a recording of zero duration) is Infinity, as in JavaScript. *)
(* Sequences are 1-based: index i of the code is index i + 1 here.         *)
(*                                                                         *)
(* Where the rounding of doubles decides a property (the rolling mean of a *)
(* constant curve), the same loop is modelled a second time on binary64    *)
(* values, each operation rounding to nearest, ties to even.               *)
(*                                                                         *)
(* The module also holds analyzeData's loop over the records of a file and *)
(* the CompactCurvePayload decoder of the Firestore loader.                *)
(***************************************************************************)
EXTENDS Integers, Sequences, FiniteSets, TLC

VARIABLES pc, distance, timestamps, mag, rolling, rate, sprintLevel, sprintStart,
          minSprintTime, fwd, fwdIdx, bwd, dec,
          startIdx,                       \* index returned by findSprintStart
          data, sprints, loopI, results,  \* analyzeData over a whole file
          original, buffer, decoded,      \* decodeCompactCurvePayload
          mag64, rolling64,               \* computeRollingMean on doubles
          sprint, loaded,                 \* loadSprintData
          appState, loads, settled        \* the Svelte page and its loads

vars == <<pc, distance, timestamps, mag, rolling, rate, sprintLevel, sprintStart,
          minSprintTime, fwd, fwdIdx, bwd, dec,
          startIdx, data, sprints, loopI, results, original, buffer, decoded,
          mag64, rolling64,
          sprint, loaded, appState, loads, settled>>

\* the variables of one record's analysis, of the batch loop, of the binary
\* decoder and of the double-precision rolling mean
recordVars == <<distance, timestamps, mag, rolling, rate, sprintLevel, sprintStart,
                minSprintTime, fwd, fwdIdx, bwd, dec, startIdx>>

batchVars == <<data, sprints, loopI, results>>

codecVars == <<original, buffer, decoded>>

floatVars == <<mag64, rolling64>>

\* the variables of loadSprintData and of the Svelte page
loadVars == <<sprint, loaded>>

pageVars == <<appState, loads, settled>>

-----------------------------------------------------------------------------
(* Bounds of the model *)

\* half the number of ticks in a second (so 0.5 s and 1.5 s are whole ticks)
Res == 16
\* magnitude units per g
MagScale == 10
\* longest series handed directly to the scanners
MaxLen == 8
\* largest tick of the dense part of the reconciler's inputs
MaxTick == 50
\* longest curve handed directly to the rolling mean
MaxRollLen == 13
\* samples beyond the minimum in an analysed curve
MaxExtra == 1
\* longest raw sample list handed directly to loadSprintData
MaxRaw == 3
\* loads started on the page, and results of one load
MaxLoads == 3
MaxRows == 2

TicksPerSec == 2 * Res

\* longest series handed directly to findSprintLevel and findSprintStart
MaxLevelLen == 12

\* most sessions in a file and most sprint records in a session
MaxSessions == 2
MaxSprints == 3

\* most samples of one curve in an encoded payload
MaxSamples == 2

\* longest short curve of constant magnitude
MaxConstLen == 13

-----------------------------------------------------------------------------
(* Numbers *)

Null == <<0, 0>>

\* +Infinity and -Infinity, as fractions with a zero denominator
Infinity == <<1, 0>>

NegInfinity == <<0 - 1, 0>>

Abs(x) == IF x < 0 THEN 0 - x ELSE x

Whole(k) == <<k, 1>>

RLt(a, b) == a[1] * b[2] < b[1] * a[2]

RGeq(a, b) == a[1] * b[2] >= b[1] * a[2]

REq(a, b) == a[1] * b[2] = b[1] * a[2]

\* n / d for n > 0, d >= 0 (n / 0 is Infinity)
Div(n, d) == IF d = 0 THEN Infinity ELSE <<n, d>>

\* Math.round of a non-negative number: floor(x + 1/2)
Round(x) == IF x[2] = 0 THEN x ELSE Whole((2 * x[1] + x[2]) \div (2 * x[2]))

\* q * x for a fraction q > 0
Scale(q, x) == IF x[2] = 0 THEN x ELSE <<q[1] * x[1], q[2] * x[2]>>

Max(a, b) == IF RLt(a, b) THEN b ELSE a

Min(a, b) == IF RLt(b, a) THEN b ELSE a

\* i + k and i - k for an integer i and a whole number k
Plus(i, k) == IF k[2] = 0 THEN k ELSE Whole(i + k[1])

Minus(i, k) == IF k[2] = 0 THEN NegInfinity ELSE Whole(i - k[1])

-----------------------------------------------------------------------------
(* Constants of detection.js *)

\* seconds
AGREEMENT_THRESHOLD == <<3, 2>>

THRESHOLD_RATIO == <<9, 10>>

SUSTAIN_SECONDS == <<1, 2>>

MIN_SUSTAIN == 5

WINDOW_SECONDS == <<1, 1>>

MIN_WINDOW == 10

minPeriods == 5

MIN_MID_VALUES == 10

\* the fallback sprint level 5.0 and the start threshold 2.0, in magnitude units
FALLBACK_LEVEL == <<5 * MagScale, 1>>

START_THRESHOLD == <<2 * MagScale, 1>>

MID_START == <<2, 10>>

MID_END == <<7, 10>>

MIN_SAMPLES == 100

\* seconds, by distance in metres
MIN_TIMES == (60 :> 3) @@ (70 :> 4) @@ (100 :> 5) @@ (200 :> 15) @@ (290 :> 25) @@ (400 :> 40)

DEFAULT_MIN_TIME == 5

-----------------------------------------------------------------------------
(* Rolling mean *)

\* samples per second
Rate(ts) == Div(Len(ts) * TicksPerSec, ts[Len(ts)] - ts[1])

Window(ts) == Max(Whole(MIN_WINDOW), Round(Scale(WINDOW_SECONDS, Rate(ts))))

\* the inner loop: what sum += mag[j] for j = lo .. hi adds up to (the range
\* is halved to keep the evaluation shallow; the sum is exact either way)
RECURSIVE SumRange(_, _, _)
SumRange(m, lo, hi) ==
  IF lo > hi THEN 0
  ELSE IF lo = hi THEN m[lo]
  ELSE SumRange(m, lo, (lo + hi) \div 2) + SumRange(m, (lo + hi) \div 2 + 1, hi)

\* RollingAt with a zero in place of an absent slot
RollingAt_zeroFill(m, window, i) ==
  LET start == Max(Whole(1), Minus(i + 1, window))[1]
      count == i - start + 1
  IN  IF count < minPeriods THEN <<0, 1>> ELSE <<SumRange(m, start, i), count>>

\* RollingAt with the window starting one sample early
RollingAt_wide(m, window, i) ==
  LET start == Max(Whole(1), Minus(i, window))[1]
      count == i - start + 1
  IN  IF count < minPeriods THEN Null ELSE <<SumRange(m, start, i), count>>

\* the body of the outer loop for index i
RollingAt(m, window, i) ==
  LET start == Max(Whole(1), Minus(i + 1, window))[1]
      count == i - start + 1
  IN  IF count < minPeriods THEN Null ELSE <<SumRange(m, start, i), count>>

computeRollingMean(ts, m) ==
  [rolling |-> [i \in 1 .. Len(m) |-> RollingAt(m, Window(ts), i)], rate |-> Rate(ts)]

-----------------------------------------------------------------------------
(* The rolling mean as JavaScript computes it: in double precision *)

(* A double that is not negative is [m |-> mantissa, e |-> exponent], worth  *)
(* m x 2^e, with a mantissa of exactly 53 bits; zero has the empty mantissa. *)
(* A mantissa, like every natural number too long for one integer here, is a *)
(* sequence of limbs, least significant first, each below Limb, without      *)
(* leading zero limbs.  Each += and each / rounds to nearest, ties to even.  *)

Limb == 32768
LimbBits == 15
MantissaBits == 53

BigNorm(a) ==
  LET used == {i \in 1 .. Len(a) : a[i] # 0}
  IN  IF used = {} THEN <<>> ELSE SubSeq(a, 1, CHOOSE i \in used : \A k \in used : k <= i)

\* a + b + carry, from limb i on
RECURSIVE BigAddFrom(_, _, _, _)
BigAddFrom(a, b, i, carry) ==
  IF i > Len(a) /\ i > Len(b) THEN (IF carry = 0 THEN <<>> ELSE <<carry>>)
  ELSE LET t == (IF i <= Len(a) THEN a[i] ELSE 0) + (IF i <= Len(b) THEN b[i] ELSE 0) + carry
       IN  <<t % Limb>> \o BigAddFrom(a, b, i + 1, t \div Limb)

\* a x k + carry for k < Limb, from limb i on
RECURSIVE BigMulFrom(_, _, _, _)
BigMulFrom(a, k, i, carry) ==
  IF i > Len(a) THEN (IF carry = 0 THEN <<>> ELSE <<carry>>)
  ELSE LET t == a[i] * k + carry
       IN  <<t % Limb>> \o BigMulFrom(a, k, i + 1, t \div Limb)

\* the quotient limbs 1 .. i and the remainder of (rem, a[i], ..., a[1]) by k < Limb
RECURSIVE BigDivFrom(_, _, _, _)
BigDivFrom(a, k, i, rem) ==
  IF i = 0 THEN <<<<>>, rem>>
  ELSE LET t == rem * Limb + a[i]
           low == BigDivFrom(a, k, i - 1, t % k)
       IN  <<Append(low[1], t \div k), low[2]>>

\* the number of bits of a
BigBits(a) ==
  IF a = <<>> THEN 0
  ELSE LimbBits * (Len(a) - 1) + Cardinality({j \in 0 .. LimbBits - 1 : 2 ^ j <= a[Len(a)]})

\* a x 2^d
ShiftLeft(a, d) ==
  BigNorm(BigMulFrom([j \in 1 .. d \div LimbBits |-> 0] \o a, 2 ^ (d % LimbBits), 1, 0))

\* a \div 2^d, and whether a bit that is set was dropped
ShiftRight(a, d) ==
  LET drop == Min(Whole(d \div LimbBits), Whole(Len(a)))[1]
      high == SubSeq(a, drop + 1, Len(a))
      quot == BigDivFrom(high, 2 ^ (d % LimbBits), Len(high), 0)
  IN  [q |-> BigNorm(quot[1]),
       sticky |-> quot[2] # 0 \/ \E i \in 1 .. drop : a[i] # 0]

Zero64 == [m |-> <<>>, e |-> 0]

\* an absent slot (null) of a series of doubles
Null64 == [absent |-> TRUE]

\* the double nearest to a x 2^e (to that plus a little less than one unit of
\* a when sticky), ties going to the even mantissa
RoundToDouble(a, e, sticky) ==
  LET bits == BigBits(a)
      excess == bits - MantissaBits
  IN  IF bits = 0 THEN Zero64
      ELSE IF excess <= 0 THEN [m |-> ShiftLeft(a, 0 - excess), e |-> e + excess]
      ELSE LET half == ShiftRight(a, excess - 1)
               q == ShiftRight(half.q, 1).q
               up == half.q[1] % 2 = 1 /\ (half.sticky \/ sticky \/ q[1] % 2 = 1)
               m == IF up THEN BigAddFrom(q, <<1>>, 1, 0) ELSE q
           IN  IF BigBits(m) > MantissaBits
               THEN [m |-> ShiftRight(m, 1).q, e |-> e + excess + 1]
               ELSE [m |-> m, e |-> e + excess]

\* x + y
Add64(x, y) ==
  IF x.m = <<>> THEN y
  ELSE IF y.m = <<>> THEN x
  ELSE LET e == IF x.e < y.e THEN x.e ELSE y.e
       IN  RoundToDouble(BigAddFrom(ShiftLeft(x.m, x.e - e), ShiftLeft(y.m, y.e - e), 1, 0),
                         e, FALSE)

\* x / k for a whole number 0 < k < Limb
Div64(x, k) ==
  LET quot == BigDivFrom(<<0, 0>> \o x.m, k, Len(x.m) + 2, 0)
  IN  RoundToDouble(BigNorm(quot[1]), x.e - 2 * LimbBits, quot[2] # 0)

\* the double a literal or a parsed number n / d stands for (n < Limb x Limb)
Double(n, d) ==
  Div64(RoundToDouble(BigNorm(<<n % Limb, n \div Limb>>), 0, FALSE), d)

\* the inner loop: sum after sum += mag[j] for j = start .. j
RECURSIVE SumUpTo(_, _, _)
SumUpTo(m, start, j) ==
  IF j < start THEN Zero64 ELSE Add64(SumUpTo(m, start, j - 1), m[j])

\* RollingAt64 dividing by the window length
RollingAt64_byWindow(m, window, i) ==
  LET start == Max(Whole(1), Minus(i + 1, window))[1]
      count == i - start + 1
  IN  IF count < minPeriods THEN Null64
      ELSE Div64(SumUpTo(m, start, i), Min(window, Whole(Len(m)))[1])

\* the body of the outer loop for index i
RollingAt64(m, window, i) ==
  LET start == Max(Whole(1), Minus(i + 1, window))[1]
      count == i - start + 1
  IN  IF count < minPeriods THEN Null64 ELSE Div64(SumUpTo(m, start, i), count)

computeRollingMean64(ts, m) == [i \in 1 .. Len(m) |-> RollingAt64(m, Window(ts), i)]

ComputeRollingMean64 ==
  /\ pc = "rolling64"
  /\ rolling64' = computeRollingMean64(timestamps, mag64)
  /\ pc' = "rolled64"
  /\ UNCHANGED <<mag64, recordVars, batchVars, codecVars, loadVars, pageVars>>

-----------------------------------------------------------------------------
(* Sprint level and sprint start *)

RAdd(a, b) == <<a[1] * b[2] + b[1] * a[2], a[2] * b[2]>>

Half(a) == <<a[1], 2 * a[2]>>

\* sorted[k] for sorted = [...arr].sort((a, b) => a - b): the element that
\* has k - 1 elements sorting before it (ties kept in their original order)
SortedAt(arr, k) ==
  arr[CHOOSE i \in 1 .. Len(arr) :
        k = 1 + Cardinality({j \in 1 .. Len(arr) :
                               RLt(arr[j], arr[i]) \/ (REq(arr[j], arr[i]) /\ j < i)})]

\* median taking the upper central value of an even-length array
median_upperCentral(arr) ==
  LET mid == Len(arr) \div 2
  IN  SortedAt(arr, mid + 1)

median(arr) ==
  LET mid == Len(arr) \div 2
  IN  IF Len(arr) % 2 = 0
      THEN Half(RAdd(SortedAt(arr, mid), SortedAt(arr, mid + 1)))
      ELSE SortedAt(arr, mid + 1)

\* t >= midStart && t <= midEnd
InMidSection(ts, t) ==
  LET duration == ts[Len(ts)] - ts[1]
  IN  /\ MID_START[2] * (t - ts[1]) >= MID_START[1] * duration
      /\ MID_END[2] * (t - ts[1]) <= MID_END[1] * duration

\* the least and the greatest element of a non-empty set of indices
Least(S) == CHOOSE i \in S : \A k \in S : i <= k

Greatest(S) == CHOOSE i \in S : \A k \in S : k <= i

\* the loop pushing rolling[i] for each index that passes the test, in index order
MidValues(ts, roll) ==
  LET samples == [i \in 1 .. Len(ts) |-> <<ts[i], roll[i]>>]
      Pushed(sample) == InMidSection(ts, sample[1]) /\ sample[2] # Null
      pushed == SelectSeq(samples, Pushed)
  IN  [k \in 1 .. Len(pushed) |-> pushed[k][2]]

findSprintLevel(ts, roll) ==
  LET midValues == MidValues(ts, roll)
  IN  IF Len(midValues) < MIN_MID_VALUES THEN FALLBACK_LEVEL ELSE median(midValues)

\* StartScan accepting a value equal to the start threshold
StartScan_atLeast(roll) ==
  LET hits == {i \in 1 .. Len(roll) : roll[i] # Null /\ RGeq(roll[i], START_THRESHOLD)}
  IN  IF hits = {} THEN 0 ELSE Least(hits)

\* the loop returning at the first index that passes the test; 0 when none does
StartScan(roll) ==
  LET hits == {i \in 1 .. Len(roll) : roll[i] # Null /\ RLt(START_THRESHOLD, roll[i])}
  IN  IF hits = {} THEN 0 ELSE Least(hits)

findSprintStart(ts, roll) ==
  LET i == StartScan(roll)
  IN  IF i = 0 THEN [time |-> ts[1], index |-> 1] ELSE [time |-> ts[i], index |-> i]

\* MIN_TIMES[dist] ?? 5, in ticks
\* MinTime giving an unlisted distance the shortest minimum of the table
MinTime_shortest(dist) ==
  (IF dist \in DOMAIN MIN_TIMES THEN MIN_TIMES[dist] ELSE 3) * TicksPerSec

MinTime(dist) ==
  (IF dist \in DOMAIN MIN_TIMES THEN MIN_TIMES[dist] ELSE DEFAULT_MIN_TIME) * TicksPerSec

-----------------------------------------------------------------------------
(* Forward scanner *)

Threshold(level) == <<THRESHOLD_RATIO[1] * level[1], THRESHOLD_RATIO[2] * level[2]>>

\* SustainSamples without the floor of 5 samples
SustainSamples_noFloor(ts) == Round(Scale(SUSTAIN_SECONDS, Rate(ts)))

SustainSamples(ts) == Max(Whole(MIN_SUSTAIN), Round(Scale(SUSTAIN_SECONDS, Rate(ts))))

\* the inner loop from index i: sustained stays true, no j in [i, endCheck)
\* has a present value >= threshold
Sustained(roll, threshold, sustainSamples, i) ==
  LET endCheck == Min(Plus(i, sustainSamples), Whole(Len(roll) + 1))[1]
  IN  \A j \in i .. (endCheck - 1) : ~(roll[j] # Null /\ RGeq(roll[j], threshold))

\* the body of the outer loop returns at index i
ForwardHit(ts, roll, threshold, searchStart, sustainSamples, i) ==
  /\ ~(ts[i] < searchStart)
  /\ ~(roll[i] = Null)
  /\ RLt(roll[i], threshold)
  /\ Sustained(roll, threshold, sustainSamples, i)

\* the outer loop: the first index it returns at, 0 when it falls through
ForwardScan(ts, roll, threshold, searchStart, sustainSamples) ==
  LET hits == {i \in 1 .. Len(ts) : ForwardHit(ts, roll, threshold, searchStart, sustainSamples, i)}
  IN  IF hits = {} THEN 0 ELSE Least(hits)

\* detectForwardIndex searching from the first sample
detectForwardIndex_noMinTime(ts, roll, level, minTime) ==
  ForwardScan(ts, roll, Threshold(level), ts[1], SustainSamples(ts))

detectForwardIndex(ts, roll, level, minTime) ==
  ForwardScan(ts, roll, Threshold(level), ts[1] + minTime, SustainSamples(ts))

\* detectForward falling back to the first timestamp
detectForward_firstFallback(ts, roll, level, minTime) ==
  LET i == detectForwardIndex(ts, roll, level, minTime)
  IN  [time |-> IF i = 0 THEN ts[1] ELSE ts[i], threshold |-> Threshold(level)]

\* detectForward falling back to the start of the search
detectForward_searchStart(ts, roll, level, minTime) ==
  LET i == detectForwardIndex(ts, roll, level, minTime)
  IN  [time |-> IF i = 0 THEN ts[1] + minTime ELSE ts[i], threshold |-> Threshold(level)]

detectForward(ts, roll, level, minTime) ==
  LET i == detectForwardIndex(ts, roll, level, minTime)
  IN  [time |-> IF i = 0 THEN ts[Len(ts)] ELSE ts[i], threshold |-> Threshold(level)]

-----------------------------------------------------------------------------
(* Backward scanner *)

\* BackwardScan running from the first index up
BackwardScan_fromFirst(roll, threshold, n) ==
  LET hits == {i \in 1 .. n : ~(roll[i] = Null) /\ RGeq(roll[i], threshold)}
  IN  IF hits = {} THEN 0 ELSE Least(hits)

\* BackwardScan asking for a value above the threshold
BackwardScan_strict(roll, threshold, n) ==
  LET hits == {i \in 1 .. n : ~(roll[i] = Null) /\ RLt(threshold, roll[i])}
  IN  IF hits = {} THEN 0 ELSE Greatest(hits)

\* the loop from the last index down: the first index it returns at, 0 when
\* it falls through
BackwardScan(roll, threshold, n) ==
  LET hits == {i \in 1 .. n : ~(roll[i] = Null) /\ RGeq(roll[i], threshold)}
  IN  IF hits = {} THEN 0 ELSE Greatest(hits)

\* detectBackward comparing against the sprint level itself
detectBackward_fullLevel(ts, roll, level) ==
  LET i == BackwardScan(roll, level, Len(ts))
  IN  [time |-> IF i = 0 THEN ts[1] ELSE ts[i], threshold |-> Threshold(level)]

detectBackward(ts, roll, level) ==
  LET i == BackwardScan(roll, Threshold(level), Len(ts))
  IN  [time |-> IF i = 0 THEN ts[1] ELSE ts[i], threshold |-> Threshold(level)]

-----------------------------------------------------------------------------
(* Reconciler *)

\* decide with the boundary gap excluded from agreement
decide_strict(forwardTime, backwardTime) ==
  LET gap == Abs(forwardTime - backwardTime)
  IN  IF RLt(<<gap, TicksPerSec>>, AGREEMENT_THRESHOLD)
      THEN [final |-> <<forwardTime + backwardTime, 2>>, decision |-> "agree", gap |-> gap]
      ELSE IF forwardTime < backwardTime
      THEN [final |-> <<backwardTime, 1>>, decision |-> "trust_backward", gap |-> gap]
      ELSE [final |-> <<forwardTime, 1>>, decision |-> "trust_forward", gap |-> gap]

\* decide trusting the earlier candidate
decide_earlier(forwardTime, backwardTime) ==
  LET gap == Abs(forwardTime - backwardTime)
  IN  IF ~RLt(AGREEMENT_THRESHOLD, <<gap, TicksPerSec>>)
      THEN [final |-> <<forwardTime + backwardTime, 2>>, decision |-> "agree", gap |-> gap]
      ELSE IF forwardTime < backwardTime
      THEN [final |-> <<forwardTime, 1>>, decision |-> "trust_forward", gap |-> gap]
      ELSE [final |-> <<backwardTime, 1>>, decision |-> "trust_backward", gap |-> gap]

\* decide answering the sum of the two times on agreement
decide_sum(forwardTime, backwardTime) ==
  LET gap == Abs(forwardTime - backwardTime)
  IN  IF ~RLt(AGREEMENT_THRESHOLD, <<gap, TicksPerSec>>)
      THEN [final |-> <<forwardTime + backwardTime, 1>>, decision |-> "agree", gap |-> gap]
      ELSE IF forwardTime < backwardTime
      THEN [final |-> <<backwardTime, 1>>, decision |-> "trust_backward", gap |-> gap]
      ELSE [final |-> <<forwardTime, 1>>, decision |-> "trust_forward", gap |-> gap]

decide(forwardTime, backwardTime) ==
  LET gap == Abs(forwardTime - backwardTime)
  IN  IF ~RLt(AGREEMENT_THRESHOLD, <<gap, TicksPerSec>>)
      THEN [final |-> <<forwardTime + backwardTime, 2>>, decision |-> "agree", gap |-> gap]
      ELSE IF forwardTime < backwardTime
      THEN [final |-> <<backwardTime, 1>>, decision |-> "trust_backward", gap |-> gap]
      ELSE [final |-> <<forwardTime, 1>>, decision |-> "trust_forward", gap |-> gap]

-----------------------------------------------------------------------------
(* State *)

NoScan == [time |-> 0, threshold |-> Null]

NoDecision == [final |-> Null, decision |-> "none", gap |-> 0]

Seconds(s) == s * TicksPerSec

\* no file is being analysed
IdleBatch == data = <<>> /\ sprints = <<>> /\ loopI = 0 /\ results = <<>>

\* no payload is being decoded
IdleCodec ==
  /\ original = [version |-> 0, accel |-> <<>>, gyro |-> <<>>]
  /\ buffer = <<>>
  /\ decoded = [status |-> "none"]

\* no double-precision curve is loaded
IdleFloat == mag64 = <<>> /\ rolling64 = <<>>

\* no record is being loaded
IdleLoad == sprint = <<>> /\ loaded = <<>>

\* a status line: its text and the value interpolated into it
Status(text, of) == [text |-> text, of |-> of]

\* appState as state.svelte.ts constructs it (isLoading, which it does not
\* declare, reads as false until handleFirestore assigns it)
NewAppState ==
  [fileName |-> "", results |-> <<>>, selectedIndex |-> 0 - 1,
   status |-> Status("Drop a .sprintzero file to begin", ""),
   wasmReady |-> FALSE, isLoading |-> FALSE]

\* the page as mounted: nothing loaded, no load in flight, none settled
IdlePage == appState = NewAppState /\ loads = {} /\ settled = <<>>

-----------------------------------------------------------------------------
(* Steps of the analysis of one record (analyzeData's loop body) *)

ComputeRollingMean ==
  /\ pc = "rolling"
  /\ rolling' = computeRollingMean(timestamps, mag).rolling
  /\ rate' = computeRollingMean(timestamps, mag).rate
  /\ pc' = "level"
  /\ UNCHANGED <<distance, timestamps, mag, sprintLevel, sprintStart, minSprintTime, fwd, fwdIdx, bwd, dec>>
  /\ UNCHANGED <<startIdx, batchVars, codecVars, floatVars, loadVars, pageVars>>

FindSprintLevel ==
  /\ pc = "level"
  /\ sprintLevel' = findSprintLevel(timestamps, rolling)
  /\ pc' = "start"
  /\ UNCHANGED <<distance, timestamps, mag, rolling, rate, sprintStart, minSprintTime, fwd, fwdIdx, bwd, dec>>
  /\ UNCHANGED <<startIdx, batchVars, codecVars, floatVars, loadVars, pageVars>>

FindSprintStart ==
  /\ pc = "start"
  /\ sprintStart' = findSprintStart(timestamps, rolling).time
  /\ startIdx' = findSprintStart(timestamps, rolling).index
  /\ pc' = "mintime"
  /\ UNCHANGED <<distance, timestamps, mag, rolling, rate, sprintLevel, minSprintTime, fwd, fwdIdx, bwd, dec>>
  /\ UNCHANGED <<batchVars, codecVars, floatVars, loadVars, pageVars>>

LookUpMinTime ==
  /\ pc = "mintime"
  /\ minSprintTime' = MinTime(distance)
  /\ pc' = "forward"
  /\ UNCHANGED <<distance, timestamps, mag, rolling, rate, sprintLevel, sprintStart, fwd, fwdIdx, bwd, dec>>
  /\ UNCHANGED <<startIdx, batchVars, codecVars, floatVars, loadVars, pageVars>>

DetectForward ==
  /\ pc = "forward"
  /\ fwd' = detectForward(timestamps, rolling, sprintLevel, minSprintTime)
  /\ fwdIdx' = detectForwardIndex(timestamps, rolling, sprintLevel, minSprintTime)
  /\ pc' = "backward"
  /\ UNCHANGED <<distance, timestamps, mag, rolling, rate, sprintLevel, sprintStart, minSprintTime, bwd, dec>>
  /\ UNCHANGED <<startIdx, batchVars, codecVars, floatVars, loadVars, pageVars>>

DetectBackward ==
  /\ pc = "backward"
  /\ bwd' = detectBackward(timestamps, rolling, sprintLevel)
  /\ pc' = "decide"
  /\ UNCHANGED <<distance, timestamps, mag, rolling, rate, sprintLevel, sprintStart, minSprintTime, fwd, fwdIdx, dec>>
  /\ UNCHANGED <<startIdx, batchVars, codecVars, floatVars, loadVars, pageVars>>

Decide ==
  /\ pc = "decide"
  /\ dec' = decide(fwd.time, bwd.time)
  /\ pc' = "done"
  /\ UNCHANGED <<distance, timestamps, mag, rolling, rate, sprintLevel, sprintStart, minSprintTime, fwd, fwdIdx, bwd>>
  /\ UNCHANGED <<startIdx, batchVars, codecVars, floatVars, loadVars, pageVars>>

-----------------------------------------------------------------------------
(* The reconciler on its own: any two candidate times *)

InitDecide ==
  LET DecideTimes == (0 .. MaxTick) \cup {Seconds(10), Seconds(11), Seconds(12)}
  IN  /\ pc = "decide"
      /\ distance = 0
      /\ timestamps = <<>>
      /\ mag = <<>>
      /\ rolling = <<>>
      /\ rate = Null
      /\ sprintLevel = Null
      /\ sprintStart = 0
      /\ minSprintTime = 0
      /\ fwdIdx = 0
      /\ \E f \in DecideTimes : fwd = [time |-> f, threshold |-> Null]
      /\ \E b \in DecideTimes : bwd = [time |-> b, threshold |-> Null]
      /\ dec = NoDecision
      /\ startIdx = 0
      /\ IdleBatch /\ IdleCodec /\ IdleFloat /\ IdleLoad /\ IdlePage

NextDecide == Decide

SpecDecide == InitDecide /\ [][NextDecide]_vars

-----------------------------------------------------------------------------
(* The scanners on their own: any series, level and minimum sprint time *)

InitScan ==
  LET \* sample spacings in ticks: a burst, a fast and a slow recording
      ScanSpacings == {0, 3, Res}
      ScanTimestamps == {[i \in 1 .. n |-> (i - 1) * d] : n \in 1 .. MaxLen, d \in ScanSpacings}
      \* absent, just below the threshold of level 5.0, exactly on it
      ScanValues == {Null, <<9 * MagScale - 2, 2>>, <<9 * MagScale, 2>>}
      ScanMinTimes == {0, 2 * Res, Seconds(3)}
  IN  /\ pc = "forward"
      /\ distance = 0
      /\ timestamps \in ScanTimestamps
      /\ mag = <<>>
      /\ rate = Null
      /\ rolling \in [1 .. Len(timestamps) -> ScanValues]
      /\ sprintLevel = FALLBACK_LEVEL
      /\ sprintStart = 0
      /\ minSprintTime \in ScanMinTimes
      /\ fwd = NoScan
      /\ fwdIdx = 0
      /\ bwd = NoScan
      /\ dec = NoDecision
      /\ startIdx = 0
      /\ IdleBatch /\ IdleCodec /\ IdleFloat /\ IdleLoad /\ IdlePage

NextScan == DetectForward \/ DetectBackward \/ Decide

SpecScan == InitScan /\ [][NextScan]_vars

-----------------------------------------------------------------------------
(* The rolling mean on its own: any short curve *)

\* sample spacings in ticks
RollSpacings == {0, 3, 4}

InitRolling ==
  LET RollTimestamps == {[i \in 1 .. n |-> (i - 1) * d] : n \in 1 .. MaxRollLen, d \in RollSpacings}
      RollMags == {0, 25}
  IN  /\ pc = "rolling"
      /\ distance = 0
      /\ timestamps \in RollTimestamps
      /\ mag \in [1 .. Len(timestamps) -> RollMags]
      /\ rolling = <<>>
      /\ rate = Null
      /\ sprintLevel = Null
      /\ sprintStart = 0
      /\ minSprintTime = 0
      /\ fwd = NoScan
      /\ fwdIdx = 0
      /\ bwd = NoScan
      /\ dec = NoDecision
      /\ startIdx = 0
      /\ IdleBatch /\ IdleCodec /\ IdleFloat /\ IdleLoad /\ IdlePage

NextRolling == ComputeRollingMean

SpecRolling == InitRolling /\ [][NextRolling]_vars

-----------------------------------------------------------------------------
(* The rolling mean of a curve of constant magnitude, in double precision *)

InitConstant ==
  LET \* short curves at the spacings of RollSpacings, and the shortest curve that
      \* analyzeData analyses
      ConstTimestamps ==
        {[i \in 1 .. n |-> (i - 1) * d] : n \in 1 .. MaxConstLen, d \in RollSpacings}
          \cup {[i \in 1 .. MIN_SAMPLES |-> (i - 1) * 3]}
      \* 0, 0.1, 0.3, 0.5, 1, 5 and 9.81 g
      ConstMags ==
        {Zero64, Double(1, 10), Double(3, 10), Double(1, 2), Double(1, 1), Double(5, 1),
         Double(981, 100)}
  IN  /\ pc = "rolling64"
      /\ timestamps \in ConstTimestamps
      /\ \E c \in ConstMags : mag64 = [i \in 1 .. Len(timestamps) |-> c]
      /\ rolling64 = <<>>
      /\ distance = 0
      /\ mag = <<>>
      /\ rolling = <<>>
      /\ rate = Null
      /\ sprintLevel = Null
      /\ sprintStart = 0
      /\ minSprintTime = 0
      /\ fwd = NoScan
      /\ fwdIdx = 0
      /\ bwd = NoScan
      /\ dec = NoDecision
      /\ startIdx = 0
      /\ IdleBatch /\ IdleCodec /\ IdleLoad /\ IdlePage

NextConstant == ComputeRollingMean64

SpecConstant == InitConstant /\ [][NextConstant]_vars

-----------------------------------------------------------------------------
(* Sprint level and sprint start on their own: any short rolling series *)

\* the first k slots absent, as computeRollingMean leaves them
LevelRolling(n, k, tail) == [i \in 1 .. n |-> IF i <= k THEN Null ELSE tail[i]]

InitLevel ==
  LET \* a burst (every sample at one instant), an even recording, and a recording
      \* whose inner samples sit on the two ends and in the middle of the mid-section
      LevelTimestamps ==
        {[i \in 1 .. n |-> 0] : n \in 1 .. MaxLevelLen}
          \cup {[i \in 1 .. n |-> i - 1] : n \in 1 .. MaxLevelLen}
          \cup {[i \in 1 .. n |-> IF i = 1 THEN 0
                                   ELSE IF i = n THEN 10
                                   ELSE IF i = 2 THEN 2
                                   ELSE IF i = n - 1 THEN 7
                                   ELSE 5] : n \in 3 .. MaxLevelLen}
      \* exactly 2.0 g and just above it
      LevelValues == {START_THRESHOLD, <<2 * MagScale + 1, 1>>}
  IN  /\ pc = "level"
      /\ distance = 0
      /\ timestamps \in LevelTimestamps
      /\ mag = <<>>
      /\ \E k \in 0 .. Len(timestamps) :
           \E tail \in [k + 1 .. Len(timestamps) -> LevelValues] :
             rolling = LevelRolling(Len(timestamps), k, tail)
      /\ rate = Null
      /\ sprintLevel = Null
      /\ sprintStart = 0
      /\ minSprintTime = 0
      /\ fwd = NoScan
      /\ fwdIdx = 0
      /\ bwd = NoScan
      /\ dec = NoDecision
      /\ startIdx = 0
      /\ IdleBatch /\ IdleCodec /\ IdleFloat /\ IdleLoad /\ IdlePage

NextLevel == FindSprintLevel \/ FindSprintStart

SpecLevel == InitLevel /\ [][NextLevel]_vars

-----------------------------------------------------------------------------
(* The analysis of one record that analyzeData accepts *)

\* a sprint at level b with a lead-in of a still samples, a tail at level c
\* from sample e on, and w samples at level d from sample p on
Curve(n, a, b, e, c, p, w, d) ==
  [i \in 1 .. n |->
     IF i <= a THEN 0
     ELSE IF i >= e THEN c
     ELSE IF p > 0 /\ i >= p /\ i < p + w THEN d
     ELSE b]

InitPipeline ==
  LET PipeLens == MIN_SAMPLES .. MIN_SAMPLES + MaxExtra
      PipeSpacings == {1, 2, 3}
      PipeDistances == {60, 100, 5000}
      PipeCurves ==
        {Curve(n, a, b, e, c, p, w, d) :
           n \in PipeLens, a \in {0, 8}, b \in {4 * MagScale, 6 * MagScale},
           e \in {60, 85, MIN_SAMPLES + MaxExtra + 1}, c \in {0, 5 * MagScale},
           p \in {0, 40, 75}, w \in {1, 7}, d \in {0, 5 * MagScale}}
      \* the other distances of the table and one between two of its entries,
      \* each with a plain sprint: level 6.0 up to sample 85, still afterwards
      MoreDistances == {70, 150, 200, 290, 400}
      PlainCurves == {Curve(n, 0, 6 * MagScale, 85, 0, 0, 1, 0) : n \in PipeLens}
      \* 60 m records at rest (0 g), and at levels 1.5 g and 2.1 g, whose threshold is
      \* below the 2.0 g of findSprintStart, with a burst of 5.0 g early or late
      LowCurves ==
        {Curve(n, a, b, e, 0, p, 7, 5 * MagScale) :
           n \in PipeLens, a \in {0, 8}, b \in {0, (3 * MagScale) \div 2, 2 * MagScale + 1},
           e \in {60, 85}, p \in {0, 20, 75}}
  IN  /\ pc = "rolling"
      /\ \/ distance \in PipeDistances /\ mag \in PipeCurves
         \/ distance \in MoreDistances /\ mag \in PlainCurves
         \/ distance = 60 /\ mag \in LowCurves
      /\ \E d \in PipeSpacings : timestamps = [i \in 1 .. Len(mag) |-> (i - 1) * d]
      /\ rolling = <<>>
      /\ rate = Null
      /\ sprintLevel = Null
      /\ sprintStart = 0
      /\ minSprintTime = 0
      /\ fwd = NoScan
      /\ fwdIdx = 0
      /\ bwd = NoScan
      /\ dec = NoDecision
      /\ startIdx = 0
      /\ IdleBatch /\ IdleCodec /\ IdleFloat /\ IdleLoad /\ IdlePage

NextPipeline ==
  \/ ComputeRollingMean
  \/ FindSprintLevel
  \/ FindSprintStart
  \/ LookUpMinTime
  \/ DetectForward
  \/ DetectBackward
  \/ Decide

SpecPipeline == InitPipeline /\ [][NextPipeline]_vars

-----------------------------------------------------------------------------
(* analyzeData over a whole file *)

\* A curve payload of a sprint record is absent, or a string that does not
\* decode (atob or JSON.parse throws), or the encoding of a number of samples.
NoPayload == [kind |-> "absent"]

BadPayload == [kind |-> "corrupt"]

Payload(n) == [kind |-> "curve", samples |-> n]

\* sprint.distance || 0, a missing distance being held as -1
MissingDistance == 0 - 1

DistanceOr0(d) == IF d = MissingDistance THEN 0 ELSE d

MIN_DISTANCE == 60

\* the inner loop of getSprintsWithCurves over session s, from record k on
RECURSIVE SessionSprints(_, _, _)
SessionSprints(session, s, k) ==
  IF k > Len(session) THEN <<>>
  ELSE (IF session[k].accelerationCurve # NoPayload /\ session[k].gyroscopeCurve # NoPayload
        THEN <<[date |-> s, distance |-> DistanceOr0(session[k].distance),
                sprint |-> session[k], at |-> <<s, k>>]>>
        ELSE <<>>) \o SessionSprints(session, s, k + 1)

\* the outer loop of getSprintsWithCurves, from session s on
RECURSIVE getSprintsWithCurves(_, _)
getSprintsWithCurves(file, s) ==
  IF s > Len(file) THEN <<>>
  ELSE SessionSprints(file[s], s, 1) \o getSprintsWithCurves(file, s + 1)

AtLeastMinDistance(info) == info.distance >= MIN_DISTANCE

\* loadSprintData throws when a present payload does not decode
LoadThrows(s) ==
  s.accelerationCurve = BadPayload \/ s.gyroscopeCurve = BadPayload

\* ResultOf numbering the candidates from 0
ResultOf_zeroBased(info, i) ==
  [index |-> i - 1, date |-> info.date, distance |-> info.distance, at |-> info.at]

\* the entry pushed for the candidate at position i (index: i + 1 in the code,
\* whose positions start at 0)
ResultOf(info, i) ==
  [index |-> i, date |-> info.date, distance |-> info.distance, at |-> info.at]

\* line 240: the candidates of the file
CollectSprints ==
  /\ pc = "file"
  /\ sprints' = SelectSeq(getSprintsWithCurves(data, 1), AtLeastMinDistance)
  /\ loopI' = 1
  /\ results' = <<>>
  /\ pc' = "loop"
  /\ UNCHANGED <<data, recordVars, codecVars, floatVars, loadVars, pageVars>>

\* one pass of the loop that ends in continue
SkipSprint ==
  /\ pc = "loop"
  /\ loopI <= Len(sprints)
  /\ ~LoadThrows(sprints[loopI].sprint)
  /\ sprints[loopI].sprint.accelerationCurve.samples < MIN_SAMPLES
  /\ loopI' = loopI + 1
  /\ UNCHANGED <<pc, data, sprints, results, recordVars, codecVars, floatVars, loadVars, pageVars>>

\* one pass of the loop that ends in results.push
AnalyzeSprint ==
  /\ pc = "loop"
  /\ loopI <= Len(sprints)
  /\ ~LoadThrows(sprints[loopI].sprint)
  /\ sprints[loopI].sprint.accelerationCurve.samples >= MIN_SAMPLES
  /\ results' = Append(results, ResultOf(sprints[loopI], loopI))
  /\ loopI' = loopI + 1
  /\ UNCHANGED <<pc, data, sprints, recordVars, codecVars, floatVars, loadVars, pageVars>>

\* one pass of the loop in which loadSprintData throws: nothing catches it
\* inside analyzeData, so the call ends and its results array is lost
AnalyzeThrows ==
  /\ pc = "loop"
  /\ loopI <= Len(sprints)
  /\ LoadThrows(sprints[loopI].sprint)
  /\ results' = <<>>
  /\ pc' = "threw"
  /\ UNCHANGED <<data, sprints, loopI, recordVars, codecVars, floatVars, loadVars, pageVars>>

\* line 331: return results
ReturnResults ==
  /\ pc = "loop"
  /\ loopI > Len(sprints)
  /\ pc' = "returned"
  /\ UNCHANGED <<data, sprints, loopI, results, recordVars, codecVars, floatVars, loadVars, pageVars>>

\* the file whose session s holds the records after cuts[s - 1] up to cuts[s]
SplitSessions(records, cuts, n) ==
  [s \in 1 .. n |-> SubSeq(records, cuts[s - 1] + 1, cuts[s])]

InitBatch ==
  LET \* the sprint records a file is made of: analysable at the shortest distance
      \* and the shortest curve; one sample short; one metre short; no distance;
      \* no gyroscope payload; no acceleration payload; an undecodable payload
      SprintKinds ==
        {[accelerationCurve |-> Payload(MIN_SAMPLES), gyroscopeCurve |-> Payload(MIN_SAMPLES),
          distance |-> MIN_DISTANCE],
         [accelerationCurve |-> Payload(MIN_SAMPLES - 1), gyroscopeCurve |-> Payload(MIN_SAMPLES),
          distance |-> MIN_DISTANCE],
         [accelerationCurve |-> Payload(MIN_SAMPLES), gyroscopeCurve |-> Payload(MIN_SAMPLES),
          distance |-> MIN_DISTANCE - 1],
         [accelerationCurve |-> Payload(MIN_SAMPLES), gyroscopeCurve |-> Payload(MIN_SAMPLES),
          distance |-> MissingDistance],
         [accelerationCurve |-> Payload(MIN_SAMPLES), gyroscopeCurve |-> NoPayload,
          distance |-> MIN_DISTANCE],
         [accelerationCurve |-> NoPayload, gyroscopeCurve |-> Payload(MIN_SAMPLES),
          distance |-> MIN_DISTANCE],
         [accelerationCurve |-> BadPayload, gyroscopeCurve |-> Payload(MIN_SAMPLES),
          distance |-> MIN_DISTANCE]}
      \* the records of a file in file order
      Records == UNION {[1 .. k -> SprintKinds] : k \in 0 .. MaxSprints}
  IN  /\ pc = "file"
      /\ \E records \in Records, n \in 0 .. MaxSessions :
           \E cuts \in [0 .. n -> 0 .. Len(records)] :
             /\ cuts[0] = 0
             /\ cuts[n] = Len(records)
             /\ \A s \in 1 .. n : cuts[s - 1] <= cuts[s]
             /\ data = SplitSessions(records, cuts, n)
      /\ sprints = <<>>
      /\ loopI = 0
      /\ results = <<>>
      /\ distance = 0
      /\ timestamps = <<>>
      /\ mag = <<>>
      /\ rolling = <<>>
      /\ rate = Null
      /\ sprintLevel = Null
      /\ sprintStart = 0
      /\ minSprintTime = 0
      /\ fwd = NoScan
      /\ fwdIdx = 0
      /\ bwd = NoScan
      /\ dec = NoDecision
      /\ startIdx = 0
      /\ IdleCodec /\ IdleFloat /\ IdleLoad /\ IdlePage

NextBatch ==
  \/ CollectSprints
  \/ SkipSprint
  \/ AnalyzeSprint
  \/ AnalyzeThrows
  \/ ReturnResults

SpecBatch == InitBatch /\ [][NextBatch]_vars

-----------------------------------------------------------------------------
(* loadSprintData: decoding, ordering and magnitude of a record's curves *)

(* A payload that decodes is held as the raw sample list it decodes to; a    *)
(* raw sample is [timestamp, x, y, z], with the timestamp in ticks and the   *)
(* components in 1/MagScale g.  Math.sqrt is modelled where it is exact: on  *)
(* components whose squares add up to a perfect square.                      *)

CurvePayload(rows) == [kind |-> "curve", samples |-> Len(rows), rows |-> rows]

Sample(t, x, y, z) == [timestamp |-> t, x |-> x, y |-> y, z |-> z]

\* the array holding the values of f, built once
Array(f) == SubSeq(f, 1, Len(f))

\* sort with the comparator (a, b) => b.timestamp - a.timestamp
SortByTimestamp_descending(rows) ==
  LET n == Len(rows)
      rank == Array([i \in 1 .. n |->
                Cardinality({j \in 1 .. n :
                   \/ rows[j].timestamp > rows[i].timestamp
                   \/ (rows[j].timestamp = rows[i].timestamp /\ j < i)})])
  IN  Array([k \in 1 .. n |-> rows[CHOOSE i \in 1 .. n : rank[i] = k - 1]])

\* sort with the comparator (a, b) => a.timestamp - b.timestamp: ascending by
\* timestamp, rows of equal timestamp keeping their order (the sort is
\* stable); rank[i] counts the rows that come before row i
SortByTimestamp(rows) ==
  LET n == Len(rows)
      rank == Array([i \in 1 .. n |->
                Cardinality({j \in 1 .. n :
                   \/ rows[j].timestamp < rows[i].timestamp
                   \/ (rows[j].timestamp = rows[i].timestamp /\ j < i)})])
  IN  Array([k \in 1 .. n |-> rows[CHOOSE i \in 1 .. n : rank[i] = k - 1]])

\* Math.sqrt(x ** 2 + y ** 2 + z ** 2)
Magnitude(x, y, z) ==
  CHOOSE r \in 0 .. (Abs(x) + Abs(y) + Abs(z)) : r * r = x * x + y * y + z * z

\* lines 35-48: map, sort, then mag on each row
AccelRows(raw) ==
  LET accel == SortByTimestamp(Array(
                 [i \in 1 .. Len(raw) |->
                    [timestamp |-> raw[i].timestamp, accel_x |-> raw[i].x,
                     accel_y |-> raw[i].y, accel_z |-> raw[i].z]]))
  IN  Array([i \in 1 .. Len(raw) |->
         [timestamp |-> accel[i].timestamp, accel_x |-> accel[i].accel_x,
          accel_y |-> accel[i].accel_y, accel_z |-> accel[i].accel_z,
          mag |-> Magnitude(accel[i].accel_x, accel[i].accel_y, accel[i].accel_z)]])

\* lines 52-60: map, sort
GyroRows(raw) ==
  SortByTimestamp(Array(
    [i \in 1 .. Len(raw) |->
       [timestamp |-> raw[i].timestamp, gyro_x |-> raw[i].x,
        gyro_y |-> raw[i].y, gyro_z |-> raw[i].z]]))

\* the object returned for a record whose present payloads decode: accel and
\* gyro are properties of it only when the payload is present
loadSprintData(s) ==
  IF s.accelerationCurve # NoPayload /\ s.gyroscopeCurve # NoPayload
  THEN [accel |-> AccelRows(s.accelerationCurve.rows), gyro |-> GyroRows(s.gyroscopeCurve.rows)]
  ELSE IF s.accelerationCurve # NoPayload
  THEN [accel |-> AccelRows(s.accelerationCurve.rows)]
  ELSE IF s.gyroscopeCurve # NoPayload
  THEN [gyro |-> GyroRows(s.gyroscopeCurve.rows)]
  ELSE [property \in {} |-> 0]

\* one call of loadSprintData
LoadSprintData ==
  /\ pc = "load"
  /\ IF LoadThrows(sprint)
     THEN pc' = "loadThrew" /\ loaded' = loaded
     ELSE pc' = "loaded" /\ loaded' = loadSprintData(sprint)
  /\ UNCHANGED <<sprint, recordVars, batchVars, codecVars, floatVars, pageVars>>

\* a record carrying the list as either payload or as both, or carrying it
\* beside a payload that does not decode
InitLoad ==
  LET \* raw samples at three instants: at rest, and 5 g, 3 g and 7 g along
      \* directions whose components are whole numbers of g
      RawSamples ==
        {Sample(t, v[1] * MagScale, v[2] * MagScale, v[3] * MagScale) :
           t \in {0, 3, Res}, v \in {<<0, 0, 0>>, <<3, 0 - 4, 0>>, <<0 - 1, 2, 2>>, <<2, 3, 6>>}}
      RawCurves == UNION {[1 .. n -> RawSamples] : n \in 0 .. MaxRaw}
  IN  /\ pc = "load"
      /\ \E rows \in RawCurves :
           \E a \in {NoPayload, BadPayload, CurvePayload(rows)} :
             \E g \in {NoPayload, CurvePayload(rows)} :
               sprint = [accelerationCurve |-> a, gyroscopeCurve |-> g, distance |-> 60]
      /\ loaded = <<>>
      /\ distance = 0
      /\ timestamps = <<>>
      /\ mag = <<>>
      /\ rolling = <<>>
      /\ rate = Null
      /\ sprintLevel = Null
      /\ sprintStart = 0
      /\ minSprintTime = 0
      /\ fwd = NoScan
      /\ fwdIdx = 0
      /\ bwd = NoScan
      /\ dec = NoDecision
      /\ startIdx = 0
      /\ IdleBatch /\ IdleCodec /\ IdleFloat /\ IdlePage

NextLoad == LoadSprintData

SpecLoad == InitLoad /\ [][NextLoad]_vars

-----------------------------------------------------------------------------
(* analyzeData on records with their curves: each candidate is loaded, *)
(* analysed step by step, and its result pushed                        *)

\* gyroData of a record without a gyroscope series
NoGyroData == [absent |-> TRUE]

\* variance(arr): the mean m = S / n, then the sum of (v - m) ** 2, which is
\* (n v - S) ** 2 / n ** 2, over n
variance(arr) ==
  LET n == Len(arr)
      S == SumRange(arr, 1, n)
      squares == [i \in 1 .. n |-> (n * arr[i] - S) * (n * arr[i] - S)]
  IN  <<SumRange(squares, 1, n), n * n * n>>

\* line 285; the three variances are over the same number of samples, so
\* they are compared by their numerators
dominantAxis(vx, vy, vz) ==
  IF vx[1] >= vy[1] /\ vx[1] >= vz[1] THEN "x" ELSE IF vy[1] >= vz[1] THEN "y" ELSE "z"

\* GyroData attaching a series of exactly 100 samples too
GyroData_atLeast(gyro, start) ==
  IF Len(gyro) >= 100
  THEN LET gX == [i \in 1 .. Len(gyro) |-> gyro[i].gyro_x]
           gY == [i \in 1 .. Len(gyro) |-> gyro[i].gyro_y]
           gZ == [i \in 1 .. Len(gyro) |-> gyro[i].gyro_z]
       IN  [t |-> [i \in 1 .. Len(gyro) |-> gyro[i].timestamp - start],
            x |-> gX, y |-> gY, z |-> gZ,
            dominantAxis |-> dominantAxis(variance(gX), variance(gY), variance(gZ))]
  ELSE NoGyroData

\* lines 277-287 (gyro is present for every candidate)
GyroData(gyro, start) ==
  IF Len(gyro) > 100
  THEN LET gX == [i \in 1 .. Len(gyro) |-> gyro[i].gyro_x]
           gY == [i \in 1 .. Len(gyro) |-> gyro[i].gyro_y]
           gZ == [i \in 1 .. Len(gyro) |-> gyro[i].gyro_z]
       IN  [t |-> [i \in 1 .. Len(gyro) |-> gyro[i].timestamp - start],
            x |-> gX, y |-> gY, z |-> gZ,
            dominantAxis |-> dominantAxis(variance(gX), variance(gY), variance(gZ))]
  ELSE NoGyroData

\* lines 268-274 and 307-328: the entry pushed for the candidate at position i
DetectionResult(info, i) ==
  [index |-> i, date |-> info.date, distance |-> info.distance, at |-> info.at,
   fwdDur |-> fwd.time - sprintStart,
   bwdDur |-> bwd.time - sprintStart,
   finalDur |-> <<dec.final[1] - sprintStart * dec.final[2], dec.final[2]>>,
   gap |-> dec.gap,
   decision |-> dec.decision,
   plotData |-> [t |-> [k \in 1 .. Len(timestamps) |-> timestamps[k] - sprintStart],
                 rolling |-> rolling,
                 rawMag |-> [k \in 1 .. Len(loaded.accel) |-> loaded.accel[k].mag],
                 sprintLevel |-> sprintLevel,
                 threshold |-> fwd.threshold,
                 fwdTime |-> fwd.time - sprintStart,
                 bwdTime |-> bwd.time - sprintStart,
                 finalTime |-> <<dec.final[1] - sprintStart * dec.final[2], dec.final[2]>>],
   gyroData |-> GyroData(loaded.gyro, sprintStart)]

\* lines 244-253: the candidate loads with at least 100 acceleration samples;
\* the bindings of the loop body are new in each pass
LoadSprint ==
  /\ pc = "loop"
  /\ loopI <= Len(sprints)
  /\ ~LoadThrows(sprints[loopI].sprint)
  /\ sprints[loopI].sprint.accelerationCurve.samples >= MIN_SAMPLES
  /\ sprint' = sprints[loopI].sprint
  /\ loaded' = loadSprintData(sprints[loopI].sprint)
  /\ distance' = sprints[loopI].distance
  /\ timestamps' = [k \in 1 .. Len(loaded'.accel) |-> loaded'.accel[k].timestamp]
  /\ mag' = [k \in 1 .. Len(loaded'.accel) |-> loaded'.accel[k].mag]
  /\ rolling' = <<>>
  /\ rate' = Null
  /\ sprintLevel' = Null
  /\ sprintStart' = 0
  /\ minSprintTime' = 0
  /\ fwd' = NoScan
  /\ fwdIdx' = 0
  /\ bwd' = NoScan
  /\ dec' = NoDecision
  /\ startIdx' = 0
  /\ pc' = "rolling"
  /\ UNCHANGED <<batchVars, codecVars, floatVars, pageVars>>

\* lines 307-329: results.push, and on to the next candidate
PushResult ==
  /\ pc = "done"
  /\ loopI \in 1 .. Len(sprints)
  /\ results' = Append(results, DetectionResult(sprints[loopI], loopI))
  /\ loopI' = loopI + 1
  /\ pc' = "loop"
  /\ UNCHANGED <<data, sprints, recordVars, codecVars, floatVars, loadVars, pageVars>>

\* the acceleration payload of a curve of magnitudes: the samples lie along
\* the negative x axis, d ticks apart, in order of time or in reverse
AccelPayload(m, d, reversed) ==
  CurvePayload([i \in 1 .. Len(m) |->
                  LET k == IF reversed THEN Len(m) + 1 - i ELSE i
                  IN  Sample((k - 1) * d, 0 - m[k], 0, 0)])

\* a gyroscope payload of n samples 3 ticks apart, each axis alternating
\* between its amplitude and 0
GyroPayload(n, ax, ay, az) ==
  CurvePayload([i \in 1 .. n |-> Sample((i - 1) * 3, ax * (i % 2), ay * (i % 2), az * (i % 2))])

\* a file of one session: a record alone, or beside another record, either first
InitRecords ==
  LET \* analysable 60 m records: a plain sprint and a sprint with a dip, with a
      \* gyroscope series of exactly 100 samples or of 101 samples whose largest
      \* variance is on one axis or shared by several
      StudyRecords ==
        {[accelerationCurve |-> AccelPayload(m, d, reversed), gyroscopeCurve |-> g, distance |-> 60] :
           m \in {Curve(MIN_SAMPLES, 0, 6 * MagScale, 85, 0, 0, 1, 0),
                   Curve(MIN_SAMPLES + MaxExtra, 8, 4 * MagScale, 60, 0, 40, 7, 0)},
           d \in {3}, reversed \in BOOLEAN,
           g \in {GyroPayload(100, 1, 2, 3), GyroPayload(101, 0, 0, 0), GyroPayload(101, 1, 2, 2),
                   GyroPayload(101, 1, 1, 2), GyroPayload(101, 2, 1, 2), GyroPayload(101, 2, 1, 1)}}
      \* the records beside it: one a sample short, one whose acceleration payload
      \* and one whose gyroscope payload does not decode, and an analysable one
      SiblingRecords ==
        {[accelerationCurve |-> AccelPayload(Curve(MIN_SAMPLES - 1, 0, 6 * MagScale, 85, 0, 0, 1, 0), 3, FALSE),
          gyroscopeCurve |-> GyroPayload(101, 1, 2, 3), distance |-> 60],
         [accelerationCurve |-> BadPayload, gyroscopeCurve |-> GyroPayload(101, 1, 2, 3), distance |-> 60],
         [accelerationCurve |-> AccelPayload(Curve(MIN_SAMPLES, 0, 6 * MagScale, 85, 0, 0, 1, 0), 3, FALSE),
          gyroscopeCurve |-> BadPayload, distance |-> 60],
         [accelerationCurve |-> AccelPayload(Curve(MIN_SAMPLES, 8, 6 * MagScale, 60, 5 * MagScale, 0, 1, 0), 2, TRUE),
          gyroscopeCurve |-> GyroPayload(101, 1, 2, 2), distance |-> 100]}
  IN  /\ pc = "file"
      /\ \E r \in StudyRecords :
           \/ data = <<<<r>>>>
           \/ \E other \in SiblingRecords : data = <<<<r, other>>>> \/ data = <<<<other, r>>>>
      /\ sprints = <<>>
      /\ loopI = 0
      /\ results = <<>>
      /\ distance = 0
      /\ timestamps = <<>>
      /\ mag = <<>>
      /\ rolling = <<>>
      /\ rate = Null
      /\ sprintLevel = Null
      /\ sprintStart = 0
      /\ minSprintTime = 0
      /\ fwd = NoScan
      /\ fwdIdx = 0
      /\ bwd = NoScan
      /\ dec = NoDecision
      /\ startIdx = 0
      /\ IdleCodec /\ IdleFloat /\ IdleLoad /\ IdlePage

NextRecords ==
  \/ CollectSprints
  \/ SkipSprint
  \/ LoadSprint
  \/ ComputeRollingMean
  \/ FindSprintLevel
  \/ FindSprintStart
  \/ LookUpMinTime
  \/ DetectForward
  \/ DetectBackward
  \/ Decide
  \/ PushResult
  \/ AnalyzeThrows
  \/ ReturnResults

SpecRecords == InitRecords /\ [][NextRecords]_vars

-----------------------------------------------------------------------------
(* The Svelte page: appState under file loads, Firestore loads and clicks *)

(* A load in flight is [id, kind, name]: a FileReader reading the file name, *)
(* or a handleFirestore call waiting on fetchSessions; initWasm of onMount   *)
(* is in flight from the start.  Every callback runs to its end before the  *)
(* next one starts, and loads settle in any order.  settled lists the loads *)
(* that have settled, in that order, each with what came of it: "rows",     *)
(* "empty", "threw" (parseAndAnalyze, fetchSessions or analyzeSprint threw) *)
(* or "unreadable" (reader.onerror).  The rows of a result list carry the   *)
(* id of the load that produced them.                                       *)

WasmInit == [id |-> 0, kind |-> "wasm", name |-> ""]

Rows(id, n) == [k \in 1 .. n |-> [load |-> id, row |-> k]]

\* the next load is numbered after those started so far
NextId == Len(settled) + Cardinality(loads \ {WasmInit}) + 1

\* getSelectedResult's null
NoResult == [absent |-> TRUE]

getSelectedResult ==
  IF appState.selectedIndex >= 0 /\ appState.selectedIndex < Len(appState.results)
  THEN appState.results[appState.selectedIndex + 1]
  ELSE NoResult

\* Cleared leaving the selection where it was
Cleared_keepSelection(state, status) ==
  [state EXCEPT !.status = status, !.results = <<>>, !.fileName = ""]

\* Cleared leaving the file name where it was
Cleared_keepName(state, status) ==
  [state EXCEPT !.status = status, !.results = <<>>, !.selectedIndex = 0 - 1]

\* lines 33-37, 46-49 and 71-74: nothing to show
Cleared(state, status) ==
  [state EXCEPT !.status = status, !.results = <<>>, !.selectedIndex = 0 - 1,
                !.fileName = ""]

\* lines 40-43 and 78-81: the results of a load are shown
Installed(state, rows, name) ==
  [state EXCEPT !.results = rows, !.fileName = name, !.selectedIndex = 0,
                !.status = Status("sprint(s)", name)]

\* onMount: initWasm resolves or rejects
InitWasm ==
  /\ pc = "page"
  /\ WasmInit \in loads
  /\ \/ appState' = [appState EXCEPT !.wasmReady = TRUE, !.status = Status("ping()", "")]
     \/ appState' = [appState EXCEPT !.status = Status("WASM init failed", "")]
  /\ loads' = loads \ {WasmInit}
  /\ UNCHANGED <<pc, settled, recordVars, batchVars, codecVars, floatVars, loadVars>>

\* handleFile up to reader.readAsText: a file has been chosen
HandleFile ==
  /\ pc = "page"
  /\ NextId <= MaxLoads
  /\ \E name \in {"a.sprintzero", "b.sprintzero"} :
       /\ appState' = [appState EXCEPT !.status = Status("Reading", name)]
       /\ loads' = loads \cup {[id |-> NextId, kind |-> "file", name |-> name]}
  /\ UNCHANGED <<pc, settled, recordVars, batchVars, codecVars, floatVars, loadVars>>

\* reader.onload: parseAndAnalyze throws, or returns n results
ReaderOnload ==
  /\ pc = "page"
  /\ \E l \in loads :
       /\ l.kind = "file"
       /\ \/ /\ appState' = Cleared(appState, Status("Error", "parseAndAnalyze"))
             /\ settled' = Append(settled, [load |-> l, outcome |-> "threw"])
          \/ \E n \in 0 .. MaxRows :
               IF n = 0
               THEN /\ appState' = Cleared(appState, Status("No sprints with sensor data found in", l.name))
                    /\ settled' = Append(settled, [load |-> l, outcome |-> "empty"])
               ELSE /\ appState' = Installed(appState, Rows(l.id, n), l.name)
                    /\ settled' = Append(settled, [load |-> l, outcome |-> "rows"])
       /\ loads' = loads \ {l}
  /\ UNCHANGED <<pc, recordVars, batchVars, codecVars, floatVars, loadVars>>

\* reader.onerror
ReaderOnerror ==
  /\ pc = "page"
  /\ \E l \in loads :
       /\ l.kind = "file"
       /\ appState' = [appState EXCEPT !.status = Status("Error reading file", "")]
       /\ settled' = Append(settled, [load |-> l, outcome |-> "unreadable"])
       /\ loads' = loads \ {l}
  /\ UNCHANGED <<pc, recordVars, batchVars, codecVars, floatVars, loadVars>>

\* handleFirestore up to the await: the button is there while no file name is
\* shown and is enabled once WASM is ready
HandleFirestore ==
  /\ pc = "page"
  /\ NextId <= MaxLoads
  /\ appState.fileName = ""
  /\ appState.wasmReady
  /\ appState' = [appState EXCEPT !.isLoading = TRUE,
                                  !.status = Status("Fetching from Firestore...", "")]
  /\ loads' = loads \cup {[id |-> NextId, kind |-> "firestore", name |-> "Firestore"]}
  /\ UNCHANGED <<pc, settled, recordVars, batchVars, codecVars, floatVars, loadVars>>

\* FirestoreSettles clearing the page when the load fails
FirestoreSettles_clearing ==
  /\ pc = "page"
  /\ \E l \in loads :
       /\ l.kind = "firestore"
       /\ \/ /\ appState' = [Cleared(appState, Status("Firestore error", "")) EXCEPT !.isLoading = FALSE]
             /\ settled' = Append(settled, [load |-> l, outcome |-> "threw"])
          \/ \E n \in 1 .. MaxRows :
               /\ appState' = [Installed(appState, Rows(l.id, n), "Firestore")
                                 EXCEPT !.isLoading = FALSE]
               /\ settled' = Append(settled, [load |-> l, outcome |-> "rows"])
       /\ loads' = loads \ {l}
  /\ UNCHANGED <<pc, recordVars, batchVars, codecVars, floatVars, loadVars>>

\* handleFirestore from the await on: fetchSessions or analyzeSprint throws, or
\* there is a result for each of the n sprints fetched (fetchSessions throws
\* rather than return none, so n >= 1); finally isLoading is false
FirestoreSettles ==
  /\ pc = "page"
  /\ \E l \in loads :
       /\ l.kind = "firestore"
       /\ \/ /\ appState' = [appState EXCEPT !.status = Status("Firestore error", ""),
                                              !.isLoading = FALSE]
             /\ settled' = Append(settled, [load |-> l, outcome |-> "threw"])
          \/ \E n \in 1 .. MaxRows :
               /\ appState' = [(IF n = 0
                                 THEN Cleared(appState, Status("No analyzable sprints found in Firestore", ""))
                                 ELSE Installed(appState, Rows(l.id, n), "Firestore"))
                                 EXCEPT !.isLoading = FALSE]
               /\ settled' = Append(settled, [load |-> l, outcome |-> "rows"])
       /\ loads' = loads \ {l}
  /\ UNCHANGED <<pc, recordVars, batchVars, codecVars, floatVars, loadVars>>

\* handleSelect, called by the click on row i of the table of results
HandleSelect ==
  /\ pc = "page"
  /\ \E i \in 0 .. (Len(appState.results) - 1) :
       appState' = [appState EXCEPT !.selectedIndex = i]
  /\ UNCHANGED <<pc, loads, settled, recordVars, batchVars, codecVars, floatVars, loadVars>>

InitPage ==
  /\ pc = "page"
  /\ appState = NewAppState
  /\ loads = {WasmInit}
  /\ settled = <<>>
  /\ distance = 0
  /\ timestamps = <<>>
  /\ mag = <<>>
  /\ rolling = <<>>
  /\ rate = Null
  /\ sprintLevel = Null
  /\ sprintStart = 0
  /\ minSprintTime = 0
  /\ fwd = NoScan
  /\ fwdIdx = 0
  /\ bwd = NoScan
  /\ dec = NoDecision
  /\ startIdx = 0
  /\ IdleBatch /\ IdleCodec /\ IdleFloat /\ IdleLoad

NextPage ==
  \/ InitWasm
  \/ HandleFile
  \/ ReaderOnload
  \/ ReaderOnerror
  \/ HandleFirestore
  \/ FirestoreSettles
  \/ HandleSelect

SpecPage == InitPage /\ [][NextPage]_vars

-----------------------------------------------------------------------------
(* CompactCurvePayload: the decoder, and the layout it reads *)

(* A byte is an integer in 0 .. 255 and a buffer a sequence of bytes; the     *)
(* byte at offset o of the code is buffer[o + 1].  A 32-bit float is held as *)
(* its four bytes, most significant first; a sample is four such floats.     *)

MIN_PAYLOAD == 9
SAMPLE_SIZE == 16

\* data.length < 9
TooShort_header(buf) == Len(buf) < 5

TooShort(buf) == Len(buf) < MIN_PAYLOAD

\* view.getUint16(offset, true)
GetUint16(buf, offset) == buf[offset + 1] + 256 * buf[offset + 2]

\* what a read past the end of the view gives: a RangeError
RangeError == <<>>

\* GetFloat32 reading the bytes most significant first
GetFloat32_bigEndian(buf, offset) ==
  IF offset + 4 > Len(buf) THEN RangeError
  ELSE <<buf[offset + 1], buf[offset + 2], buf[offset + 3], buf[offset + 4]>>

\* view.getFloat32(offset, true)
GetFloat32(buf, offset) ==
  IF offset + 4 > Len(buf) THEN RangeError
  ELSE <<buf[offset + 4], buf[offset + 3], buf[offset + 2], buf[offset + 1]>>

\* HeaderSize with the short header for every version
HeaderSize_short(version) == 5

\* the offset of the first record
HeaderSize(version) == IF version >= 3 THEN 9 ELSE 5

\* readSamples(count) started at offset: the samples and the offset it
\* leaves behind, or ok = FALSE when a read throws
RECURSIVE readSamples(_, _, _)
readSamples(buf, offset, count) ==
  IF count = 0 THEN [ok |-> TRUE, samples |-> <<>>, offset |-> offset]
  ELSE LET timestamp == GetFloat32(buf, offset)
           x == GetFloat32(buf, offset + 4)
           y == GetFloat32(buf, offset + 8)
           z == GetFloat32(buf, offset + 12)
       IN  IF RangeError \in {timestamp, x, y, z}
           THEN [ok |-> FALSE, samples |-> <<>>, offset |-> offset]
           ELSE LET rest == readSamples(buf, offset + SAMPLE_SIZE, count - 1)
                IN  [ok |-> rest.ok,
                     samples |-> <<[timestamp |-> timestamp, x |-> x, y |-> y, z |-> z]>>
                                   \o rest.samples,
                     offset |-> rest.offset]

Thrown(message) == [status |-> "error", message |-> message]

\* decodeCompactCurvePayload on the decompressed buffer
decodeCompactCurvePayload(buf) ==
  IF TooShort(buf) THEN Thrown("Payload too short")
  ELSE IF buf[1] < 1 \/ buf[1] > 3 THEN Thrown("Unknown CompactCurvePayload version")
  ELSE LET accelCount == GetUint16(buf, 1)
           gyroCount == GetUint16(buf, 3)
           accel == readSamples(buf, HeaderSize(buf[1]), accelCount)
           gyro == readSamples(buf, accel.offset, gyroCount)
       IN  IF ~accel.ok \/ ~gyro.ok THEN Thrown("RangeError")
           ELSE [status |-> "ok", accel |-> accel.samples, gyro |-> gyro.samples]

DecodePayload ==
  /\ pc = "decode"
  /\ decoded' = decodeCompactCurvePayload(buffer)
  /\ pc' = "decoded"
  /\ UNCHANGED <<original, buffer, recordVars, batchVars, floatVars, loadVars, pageVars>>

(* The layout of section 3 of the specification, as an encoder writes it:    *)
(* version, the two counts, for version 3 a zero smoothedCount and           *)
(* cycleCount, then the acceleration and the gyroscope records.               *)

PutUint16(k) == <<k % 256, k \div 256>>

PutFloat32(f) == <<f[4], f[3], f[2], f[1]>>

PutSample(sample) ==
  PutFloat32(sample.timestamp) \o PutFloat32(sample.x)
    \o PutFloat32(sample.y) \o PutFloat32(sample.z)

RECURSIVE PutSamples(_)
PutSamples(samples) ==
  IF samples = <<>> THEN <<>> ELSE PutSample(Head(samples)) \o PutSamples(Tail(samples))

Encode(version, accel, gyro) ==
  <<version>> \o PutUint16(Len(accel)) \o PutUint16(Len(gyro))
    \o (IF version >= 3 THEN PutUint16(0) \o PutUint16(0) ELSE <<>>)
    \o PutSamples(accel) \o PutSamples(gyro)

\* 1.0, -3.1415927 and 0.1 as 32-bit floats
Float1 == <<63, 128, 0, 0>>
FloatNegPi == <<192, 73, 15, 219>>
FloatTenth == <<61, 204, 204, 205>>

\* the buffer as written; cut short by one byte, to 8, to 5 and to 0 bytes;
\* with one byte too many
Damaged(buf) ==
  {buf, buf \o <<0>>}
    \cup {SubSeq(buf, 1, n) : n \in {Len(buf) - 1, 8, 5, 0} \cap (0 .. Len(buf))}

\* the version byte as written, or one that is not supported
Reversioned(buf) ==
  IF buf = <<>> THEN {buf} ELSE {[buf EXCEPT ![1] = v] : v \in {buf[1], 0, 4, 255}}

InitCodec ==
  LET CodecSamples ==
        {[timestamp |-> Float1, x |-> FloatTenth, y |-> FloatNegPi, z |-> Float1],
         [timestamp |-> FloatTenth, x |-> Float1, y |-> Float1, z |-> FloatNegPi],
         [timestamp |-> FloatNegPi, x |-> FloatNegPi, y |-> FloatTenth, z |-> FloatTenth]}
      CodecCurves == UNION {[1 .. n -> CodecSamples] : n \in 0 .. MaxSamples}
  IN  /\ pc = "decode"
      /\ \E version \in 1 .. 3 : \E accel \in CodecCurves : \E gyro \in CodecCurves :
           /\ original = [version |-> version, accel |-> accel, gyro |-> gyro]
           /\ \E cut \in Damaged(Encode(version, accel, gyro)) : buffer \in Reversioned(cut)
      /\ decoded = [status |-> "none"]
      /\ distance = 0
      /\ timestamps = <<>>
      /\ mag = <<>>
      /\ rolling = <<>>
      /\ rate = Null
      /\ sprintLevel = Null
      /\ sprintStart = 0
      /\ minSprintTime = 0
      /\ fwd = NoScan
      /\ fwdIdx = 0
      /\ bwd = NoScan
      /\ dec = NoDecision
      /\ startIdx = 0
      /\ IdleBatch /\ IdleFloat /\ IdleLoad /\ IdlePage

NextCodec == DecodePayload

SpecCodec == InitCodec /\ [][NextCodec]_vars

-----------------------------------------------------------------------------
(* Properties of the reconciler *)

DecideDone == pc = "done"

\* C1: decide returns gap = |forwardTime - backwardTime|, and whenever the gap
\* is at most 1.5 s (1.5 s itself included) the decision is agree and final is
\* the average of the two times.
C1_AgreementRule ==
  DecideDone =>
    /\ dec.gap = Abs(fwd.time - bwd.time)
    /\ (2 * Abs(fwd.time - bwd.time) <= 3 * TicksPerSec =>
          /\ dec.decision = "agree"
          /\ dec.final[2] > 0
          /\ 2 * dec.final[1] = (fwd.time + bwd.time) * dec.final[2])

\* the boundary gap of exactly 1.5 s has been decided
C1_Witness ==
  /\ DecideDone
  /\ 2 * Abs(fwd.time - bwd.time) = 3 * TicksPerSec
  /\ dec.decision = "agree"

\* C2: when the gap exceeds 1.5 s, forward < backward gives trust_backward with
\* final = backward, and forward > backward gives trust_forward with
\* final = forward.
C2_DisagreementRule ==
  (DecideDone /\ 2 * Abs(fwd.time - bwd.time) > 3 * TicksPerSec) =>
    /\ (fwd.time < bwd.time =>
          dec.decision = "trust_backward" /\ dec.final = <<bwd.time, 1>>)
    /\ (fwd.time > bwd.time =>
          dec.decision = "trust_forward" /\ dec.final = <<fwd.time, 1>>)

\* forward = 10.0 s, backward = 12.0 s has been decided as trust_backward, 12.0
C2_Witness ==
  /\ DecideDone
  /\ fwd.time = Seconds(10)
  /\ bwd.time = Seconds(12)
  /\ dec.decision = "trust_backward"
  /\ dec.final = <<Seconds(12), 1>>

-----------------------------------------------------------------------------
(* Properties of the scanners *)

ForwardDone == pc \in {"backward", "decide", "done"} /\ Len(timestamps) > 0

BackwardDone == pc \in {"decide", "done"} /\ Len(timestamps) > 0

N == Len(timestamps)

Duration == timestamps[N] - timestamps[1]

\* rolling[i] is present and below 0.9 x sprintLevel
Below(i) ==
  /\ rolling[i] # Null
  /\ 10 * rolling[i][1] * sprintLevel[2] < 9 * sprintLevel[1] * rolling[i][2]

\* rolling[i] is present and at or above 0.9 x sprintLevel
AtOrAbove(i) ==
  /\ rolling[i] # Null
  /\ 10 * rolling[i][1] * sprintLevel[2] >= 9 * sprintLevel[1] * rolling[i][2]

AfterSearchStart(i) == timestamps[i] >= timestamps[1] + minSprintTime

\* index j lies in the sustain span [i, min(i + sustainSamples, n)) of index i,
\* with sustainSamples = max(5, round(0.5 x n / duration))
InSustainSpan(i, j) ==
  /\ j >= i
  /\ j <= N
  /\ \/ Duration = 0
     \/ j < i + 5
     \/ j < i + (N * TicksPerSec + Duration) \div (2 * Duration)

Qualifies(i) ==
  /\ AfterSearchStart(i)
  /\ Below(i)
  /\ \A j \in 1 .. N : InSustainSpan(i, j) => ~AtOrAbove(j)

\* C3: detectForward returns timestamps[i] for the smallest index i at or after
\* searchStart whose rolling value is present and below threshold and whose
\* sustain span holds no present value at or above threshold; indices whose
\* sustain check fails are passed over.
C3_SustainedDrop ==
  ForwardDone =>
    \A i \in 1 .. N :
      (Qualifies(i) /\ \A k \in 1 .. (i - 1) : ~Qualifies(k)) =>
        fwd.time = timestamps[i] /\ fwdIdx = i

\* a drop was returned after an earlier dip failed its sustain check, with
\* the sustain span ending inside the series
C3_Witness ==
  /\ ForwardDone
  /\ fwdIdx > 1
  /\ fwd.time # timestamps[N]
  /\ \E k \in 1 .. (fwdIdx - 1) : AfterSearchStart(k) /\ Below(k)
  /\ \E j \in 1 .. N : j > fwdIdx /\ ~InSustainSpan(fwdIdx, j)

\* C4: when no index satisfies the sustained-drop rule, detectForward returns
\* the last timestamp.
C4_ForwardFallback ==
  (ForwardDone /\ \A i \in 1 .. N : ~Qualifies(i)) => fwd.time = timestamps[N]

\* the scan fell through although a value below threshold was examined
C4_Witness ==
  /\ ForwardDone
  /\ \A i \in 1 .. N : ~Qualifies(i)
  /\ \E i \in 1 .. N : AfterSearchStart(i) /\ Below(i)
  /\ fwd.time = timestamps[N]
  /\ timestamps[N] # timestamps[1]

\* index i is a dip that recovers inside its sustain span
RecoveringDip(i) ==
  /\ Below(i)
  /\ \E j \in 1 .. N : j > i /\ InSustainSpan(i, j) /\ AtOrAbove(j)

\* C5: a dip below threshold at index i that is followed, inside its sustain
\* span, by a present value at or above threshold is never the index
\* detectForward returns from; its timestamp is returned only if another
\* sample carries the same timestamp.
C5_TransientDipRejected ==
  ForwardDone =>
    \A i \in 1 .. N :
      RecoveringDip(i) =>
        /\ fwdIdx # i
        /\ ((\A k \in 1 .. N : k # i => timestamps[k] # timestamps[i]) =>
              fwd.time # timestamps[i])

\* a single-sample dip after searchStart recovered at once and was not returned
C5_Witness ==
  /\ ForwardDone
  /\ \E i \in 1 .. (N - 1) :
       /\ AfterSearchStart(i)
       /\ Below(i)
       /\ AtOrAbove(i + 1)
       /\ fwdIdx # i
       /\ fwd.time # timestamps[i]

\* C6: every forward detection that is not the end-of-recording fallback is
\* followed by at least 0.5 s of rolling values all below threshold.
C6_StaysBelowHalfSecond ==
  (ForwardDone /\ fwdIdx # 0) =>
    \A j \in 1 .. N :
      (j > fwdIdx /\ 2 * (timestamps[j] - timestamps[fwdIdx]) < TicksPerSec) =>
        ~AtOrAbove(j)

\* C7: detectBackward returns timestamps[i] for the largest index i whose
\* rolling value is present and at or above threshold, and the first timestamp
\* when there is none.
C7_BackwardScan ==
  BackwardDone =>
    LET S == {i \in 1 .. N : AtOrAbove(i)}
    IN  IF S = {}
        THEN bwd.time = timestamps[1]
        ELSE \A i \in S : (\A k \in S : k <= i) => bwd.time = timestamps[i]

\* the last value at or above threshold lies before absent and lower values
C7_Witness ==
  /\ BackwardDone
  /\ \E i \in 2 .. (N - 2) :
       /\ AtOrAbove(i)
       /\ rolling[i + 1] = Null
       /\ \A k \in (i + 1) .. N : ~AtOrAbove(k)
       /\ Below(N)
       /\ bwd.time = timestamps[i]
       /\ timestamps[i] # timestamps[1]

-----------------------------------------------------------------------------
(* Properties of the pipeline *)

-----------------------------------------------------------------------------
(* Properties of the rolling mean *)

RollingDone == pc # "rolling" /\ Len(mag) > 0

\* the indices of the trailing window [max(0, i - window + 1), i] of index i,
\* with window = max(10, round(n / duration))
TrailingWindow(i) ==
  {j \in 1 .. Len(mag) :
     /\ j <= i
     /\ \/ Duration = 0
        \/ j > i - 10
        \/ j > i - (2 * Len(mag) * TicksPerSec + Duration) \div (2 * Duration)}

RECURSIVE SumOver(_)
SumOver(S) ==
  IF S = {} THEN 0
  ELSE LET j == CHOOSE k \in S : TRUE IN mag[j] + SumOver(S \ {j})

\* C9: the rolling series has the length of the curve, and slot i is absent
\* exactly when its trailing window holds fewer than 5 samples.
C9_RollingShape ==
  RollingDone =>
    /\ Len(rolling) = Len(mag)
    /\ \A i \in 1 .. Len(mag) :
         /\ (rolling[i] = Null <=> Cardinality(TrailingWindow(i)) < 5)
         /\ (rolling[i] # Null => rolling[i][2] > 0)

\* a present slot of mean zero next to the absent slots
C9_Witness ==
  /\ RollingDone
  /\ Len(mag) > 10
  /\ rolling[4] = Null
  /\ rolling[5] # Null
  /\ rolling[5][1] = 0
  /\ rolling[Len(mag)] # Null

\* C10: every present slot i equals the arithmetic mean of magnitude over its
\* trailing window.
C10_RollingMeanValue ==
  RollingDone =>
    \A i \in 1 .. Len(rolling) :
      rolling[i] # Null =>
        rolling[i][1] * Cardinality(TrailingWindow(i))
          = SumOver(TrailingWindow(i)) * rolling[i][2]

\* a window shorter than the prefix, over unequal magnitudes
C10_Witness ==
  /\ RollingDone
  /\ \E i \in 1 .. Len(mag) :
       /\ Cardinality(TrailingWindow(i)) < i
       /\ rolling[i] # Null
       /\ mag[1] # mag[i]
       /\ mag[i - Cardinality(TrailingWindow(i))] # mag[i]

-----------------------------------------------------------------------------
(* Properties of the sprint level and the sprint start *)

LevelDone == pc \in {"start", "mintime"}

StartDone == pc = "mintime"

\* the indices whose present rolling value lies in the middle section: at
\* least a fifth and at most seven tenths of the duration after the first
\* timestamp
Collected ==
  {i \in 1 .. Len(rolling) :
     /\ rolling[i] # Null
     /\ 5 * (timestamps[i] - timestamps[1]) >= Duration
     /\ 10 * (timestamps[i] - timestamps[1]) <= 7 * Duration}

\* v is the k-th smallest of the collected values
IsKthCollected(v, k) ==
  /\ \E i \in Collected : REq(rolling[i], v)
  /\ Cardinality({i \in Collected : RLt(rolling[i], v)}) < k
  /\ Cardinality({i \in Collected : ~RLt(v, rolling[i])}) >= k

AboveStart == {i \in 1 .. Len(rolling) : rolling[i] # Null /\ rolling[i][1] > 2 * MagScale * rolling[i][2]}

\* C13: findSprintStart returns the time and the index of the first present
\* rolling value strictly greater than 2.0, and the first timestamp with
\* index 0 (the first position) when there is none.
C13_SprintStart ==
  StartDone =>
    IF AboveStart = {}
    THEN sprintStart = timestamps[1] /\ startIdx = 1
    ELSE /\ startIdx \in AboveStart
         /\ \A i \in AboveStart : startIdx <= i
         /\ sprintStart = timestamps[startIdx]

\* the start was found after a present value of exactly 2.0 g
C13_Witness ==
  /\ StartDone
  /\ startIdx > 1
  /\ startIdx \in AboveStart
  /\ \E i \in 1 .. startIdx - 1 : rolling[i] # Null /\ REq(rolling[i], START_THRESHOLD)
  /\ sprintStart > timestamps[1]

-----------------------------------------------------------------------------
(* Properties of the minimum sprint time *)

MinTimeDone == pc \in {"forward", "backward", "decide", "done"}

\* the table of minimum sprint times, in seconds
TableSeconds ==
  CASE distance = 60 -> 3
    [] distance = 70 -> 4
    [] distance = 100 -> 5
    [] distance = 200 -> 15
    [] distance = 290 -> 25
    [] distance = 400 -> 40
    [] OTHER -> 5

\* C14: the minimum sprint time passed to the forward scanner is 3, 4, 5, 15,
\* 25 and 40 s for 60, 70, 100, 200, 290 and 400 m, and 5 s for every other
\* distance (5000 m, or an unlisted distance between two listed ones).
C14_MinSprintTime ==
  MinTimeDone =>
    /\ minSprintTime = TableSeconds * TicksPerSec
    /\ (pc # "forward" =>
          fwd = detectForward(timestamps, rolling, sprintLevel, TableSeconds * TicksPerSec))

\* the forward scanner has run for 150 m, a distance between two listed ones
C14_Witness ==
  /\ pc = "backward"
  /\ distance = 150
  /\ minSprintTime = 5 * TicksPerSec
  /\ fwd.time >= sprintStart + 5 * TicksPerSec

-----------------------------------------------------------------------------
(* Properties of analyzeData over a file *)

BatchEnded == pc \in {"returned", "threw"}

\* the positions <<session, sprint>> of the file's records
Positions == {at \in (1 .. Len(data)) \X (1 .. MaxSprints) : at[2] <= Len(data[at[1]])}

RecordAt(at) == data[at[1]][at[2]]

\* the record has both payloads, a distance of at least 60 (none counting as
\* 0) and an acceleration curve that loads with at least 100 samples
Analyzable(at) ==
  LET r == RecordAt(at)
  IN  /\ r.accelerationCurve.kind # "absent"
      /\ r.gyroscopeCurve.kind # "absent"
      /\ r.distance # MissingDistance
      /\ r.distance >= 60
      /\ r.accelerationCurve.kind = "curve"
      /\ r.accelerationCurve.samples >= 100

HasResult(at) == \E k \in 1 .. Len(results) : results[k].at = at

\* C15: analyzeData emits a result for a record if and only if the record has
\* both payloads, its distance (0 when missing) is at least 60 and its loaded
\* acceleration curve has at least 100 samples; a record failing any of
\* these is skipped and the other records of the file are still analysed.
C15_ResultIffAnalyzable ==
  BatchEnded => \A at \in Positions : HasResult(at) <=> Analyzable(at)

\* file order: session order, then sprint order within the session
Before(a, b) == a[1] < b[1] \/ (a[1] = b[1] /\ a[2] < b[2])

\* C16: analyzeData emits one result per analysable record, in the order of
\* the file (session order, then sprint order), each with an index counted
\* from 1.
C16_OrderedResults ==
  BatchEnded =>
    /\ Len(results) = Cardinality({at \in Positions : Analyzable(at)})
    /\ \A k \in 1 .. Len(results) :
         /\ results[k].at \in Positions
         /\ Analyzable(results[k].at)
         /\ results[k].index >= 1
    /\ \A j, k \in 1 .. Len(results) :
         j < k => Before(results[j].at, results[k].at) /\ results[j].index < results[k].index

\* the load of a record threw
SomeLoadThrew == pc = "threw"

\* C20: a decode error in one record surfaces to the caller of that record's
\* analysis and never aborts the processing of the other records of the
\* batch: each analysable record of the file still gets its result.
C20_ErrorsStayLocal ==
  SomeLoadThrew => \A at \in Positions : Analyzable(at) => HasResult(at)

-----------------------------------------------------------------------------
(* Properties of the CompactCurvePayload decoder *)

DecodeDone == pc = "decoded"

\* C17: decodeCompactCurvePayload fails with an error, returning no samples,
\* whenever the buffer is shorter than 9 bytes (whatever the version, so a
\* buffer of length 5 fails) or the version byte is not 1, 2 or 3.
C17_DecodeFailures ==
  (DecodeDone /\ (Len(buffer) < 9 \/ buffer[1] \notin {1, 2, 3})) =>
    /\ decoded.status = "error"
    /\ DOMAIN decoded = {"status", "message"}

\* a buffer of 5 bytes holding a complete version 1 header was refused
C17_Witness ==
  /\ DecodeDone
  /\ Len(buffer) = 5
  /\ buffer[1] = 1
  /\ buffer = Encode(1, <<>>, <<>>)
  /\ decoded.status = "error"

\* the float stored least significant byte first at offset o of the buffer
FloatAt(o) == <<buffer[o + 4], buffer[o + 3], buffer[o + 2], buffer[o + 1]>>

\* the record stored at offset o of the buffer
RecordAtOffset(o) ==
  [timestamp |-> FloatAt(o), x |-> FloatAt(o + 4), y |-> FloatAt(o + 8), z |-> FloatAt(o + 12)]

\* C18: for a valid buffer the decoder starts the body at offset 5 for
\* versions 1 and 2 and at offset 9 for version 3, and reads accelCount then
\* gyroCount records of 16 bytes: accel record k at header + 16k, gyro record
\* k at header + 16(accelCount + k); whenever it returns, accel has exactly
\* accelCount and gyro exactly gyroCount samples.
C18_DecoderLayout ==
  (DecodeDone /\ decoded.status = "ok") =>
    LET header == IF buffer[1] = 3 THEN 9 ELSE 5
        accelCount == buffer[2] + 256 * buffer[3]
        gyroCount == buffer[4] + 256 * buffer[5]
    IN  /\ buffer[1] \in {1, 2, 3}
        /\ Len(decoded.accel) = accelCount
        /\ Len(decoded.gyro) = gyroCount
        /\ header + 16 * (accelCount + gyroCount) <= Len(buffer)
        /\ \A k \in 0 .. accelCount - 1 :
             decoded.accel[k + 1] = RecordAtOffset(header + 16 * k)
        /\ \A k \in 0 .. gyroCount - 1 :
             decoded.gyro[k + 1] = RecordAtOffset(header + 16 * (accelCount + k))

\* a version 3 buffer with two different records of each kind was decoded
C18_Witness ==
  /\ DecodeDone
  /\ decoded.status = "ok"
  /\ buffer[1] = 3
  /\ Len(decoded.accel) = 2
  /\ Len(decoded.gyro) = 2
  /\ decoded.accel[1] # decoded.accel[2]
  /\ decoded.accel[2] # decoded.gyro[1]

\* the buffer is the encoding of the original curves, untouched
Intact == buffer = Encode(original.version, original.accel, original.gyro)

Recovered ==
  /\ decoded.status = "ok"
  /\ decoded.accel = original.accel
  /\ decoded.gyro = original.gyro

\* C19: for every supported version and every N, encoding N acceleration and
\* gyroscope samples into the layout and decoding the result recovers the
\* same samples in the same order, with the same counts.
C19_RoundTrip ==
  (DecodeDone /\ Intact) => Recovered

\* C19, amended: the round trip recovers the curves for version 3 whatever
\* the counts, and for versions 1 and 2 when at least one sample is encoded.
C19_RoundTripNonEmpty ==
  (DecodeDone /\ Intact /\ (original.version = 3 \/ Len(original.accel) + Len(original.gyro) >= 1))
    => Recovered

\* a version 2 payload of two different acceleration samples and one
\* gyroscope sample has made the round trip
C19_Witness ==
  /\ DecodeDone
  /\ Intact
  /\ original.version = 2
  /\ Len(original.accel) = 2
  /\ original.accel[1] # original.accel[2]
  /\ Len(original.gyro) = 1
  /\ Recovered

-----------------------------------------------------------------------------
(* Properties of the rolling mean of a constant curve *)

Rolled64 == pc = "rolled64"

\* the number of samples averaged into slot i: those of the trailing window
\* [max(0, i - window + 1), i], with window = max(10, round(n / duration))
CountAt(i) ==
  Cardinality({j \in 1 .. i :
                 \/ Duration = 0
                 \/ j > i - 10
                 \/ j > i - (2 * Len(mag64) * TicksPerSec + Duration) \div (2 * Duration)})

\* C11: for a curve whose every magnitude equals the same constant c, every
\* present value of the rolling series equals c exactly.
C11_ConstantExact ==
  Rolled64 =>
    \A i \in 1 .. Len(rolling64) : rolling64[i] # Null64 => rolling64[i] = mag64[1]

\* k x c is a double: its mantissa, stripped of trailing zero bits, has at
\* most 53 bits
MultipleIsDouble(c, k) ==
  LET product == BigNorm(BigMulFrom(c.m, k, 1, 0))
  IN  \E z \in 0 .. LimbBits - 1 :
        /\ BigDivFrom(product, 2 ^ z, Len(product), 0)[2] = 0
        /\ BigBits(product) - z <= MantissaBits

\* v and c have the same exponent and mantissas at most k apart
WithinUlps(v, c, k) ==
  /\ v.e = c.e
  /\ \E u \in 0 .. k :
       \/ BigAddFrom(v.m, BigNorm(<<u>>), 1, 0) = c.m
       \/ BigAddFrom(c.m, BigNorm(<<u>>), 1, 0) = v.m

\* C11, amended: for a constant curve c every present rolling value is c up
\* to rounding, at most as many units in the last place of c away as samples
\* were averaged, and is c exactly when c, 2c, ..., count x c are all
\* doubles.
C11_ConstantUpToRounding ==
  Rolled64 =>
    \A i \in 1 .. Len(rolling64) :
      rolling64[i] # Null64 =>
        /\ WithinUlps(rolling64[i], mag64[1], CountAt(i))
        /\ ((\A k \in 1 .. CountAt(i) : MultipleIsDouble(mag64[1], k))
              => rolling64[i] = mag64[1])

\* a curve of constant 0.1 g whose mean over five samples is 0.1 and whose
\* mean over six samples is one unit in the last place away from it
C11_Witness ==
  /\ Rolled64
  /\ mag64[1] = Double(1, 10)
  /\ Len(rolling64) >= 6
  /\ rolling64[5] = mag64[1]
  /\ rolling64[6] # mag64[1]
  /\ WithinUlps(rolling64[6], mag64[1], 1)

-----------------------------------------------------------------------------
(* Brackets of the reconciler and the forward scanner *)

\* C24: decide returns exactly one of agree, trust_forward, trust_backward, and
\* min(forward, backward) <= final <= max(forward, backward); when the decision
\* is not agree, final is the later of the two candidates.
C24_DecideBracket ==
  DecideDone =>
    /\ dec.decision \in {"agree", "trust_forward", "trust_backward"}
    /\ dec.final[2] > 0
    /\ IF fwd.time <= bwd.time
       THEN fwd.time * dec.final[2] <= dec.final[1] /\ dec.final[1] <= bwd.time * dec.final[2]
       ELSE bwd.time * dec.final[2] <= dec.final[1] /\ dec.final[1] <= fwd.time * dec.final[2]
    /\ (dec.decision # "agree" =>
          /\ dec.final[1] = dec.final[2] * (IF fwd.time <= bwd.time THEN bwd.time ELSE fwd.time)
          /\ dec.final[1] > dec.final[2] * (IF fwd.time <= bwd.time THEN fwd.time ELSE bwd.time))

\* two different candidates agreed on a final time strictly between them
C24_Witness ==
  /\ DecideDone
  /\ dec.decision = "agree"
  /\ fwd.time > 0
  /\ bwd.time > fwd.time
  /\ fwd.time * dec.final[2] < dec.final[1]
  /\ dec.final[1] < bwd.time * dec.final[2]

\* C25: for non-decreasing timestamps the time detectForward returns is an
\* element of timestamps, and it is either the last timestamp or a timestamp at
\* or after timestamps[0] + minSprintTime whose rolling value is present and
\* below the threshold; so it is earlier than the minimum sprint time only when
\* the whole recording is.
C25_ForwardAnchored ==
  ForwardDone =>
    /\ \E i \in 1 .. N : fwd.time = timestamps[i]
    /\ \/ fwd.time = timestamps[N]
       \/ \E i \in 1 .. N : fwd.time = timestamps[i] /\ AfterSearchStart(i) /\ Below(i)
    /\ (fwd.time < timestamps[1] + minSprintTime =>
          timestamps[N] < timestamps[1] + minSprintTime)

\* a drop before the minimum sprint time was passed over and a later one,
\* before the end of the series, was returned
C25_Witness ==
  /\ ForwardDone
  /\ minSprintTime > 0
  /\ fwd.time # timestamps[N]
  /\ fwd.time >= timestamps[1] + minSprintTime
  /\ \E k \in 1 .. N : Below(k) /\ ~AfterSearchStart(k)

-----------------------------------------------------------------------------
(* Numbering of the results *)

\* the candidate at position p was passed over for having too few samples
Skipped(p) ==
  /\ sprints[p].sprint.accelerationCurve.kind = "curve"
  /\ sprints[p].sprint.accelerationCurve.samples < 100

\* C27: the index of each emitted result is 1 + its position (counted from 0)
\* among the records that passed the curves-present and distance >= 60 filter;
\* so indices are strictly increasing, and the k-th result (k from 0) has an
\* index of at least k + 1, with a gap for every record skipped for having
\* fewer than 100 acceleration samples.
C27_IndexNumbering ==
  pc \in {"loop", "returned", "threw"} =>
    /\ \A k \in 1 .. Len(results) :
         /\ results[k].index \in 1 .. Len(sprints)
         /\ sprints[results[k].index].at = results[k].at
         /\ sprints[results[k].index].distance >= 60
         /\ results[k].index =
              k + Cardinality({p \in 1 .. (results[k].index - 1) : Skipped(p)})
         /\ results[k].index >= k
    /\ \A j, k \in 1 .. Len(results) : j < k => results[j].index < results[k].index

\* a file was analysed to the end in which a candidate with too few samples
\* came between two analysed ones: the second result has index 3
C27_Witness ==
  /\ pc = "returned"
  /\ Len(results) = 2
  /\ results[1].index = 1
  /\ results[2].index = 3
  /\ Skipped(2)

-----------------------------------------------------------------------------
(* The backward crossing under a median sprint level *)

\* findSprintLevel returned the median of at least 10 mid-section values
MedianLevel ==
  /\ Len(MidValues(timestamps, rolling)) >= 10
  /\ sprintLevel = median(MidValues(timestamps, rolling))

\* C26: when findSprintLevel returns the median of at least 10 mid-section
\* values (magnitudes being non-negative), detectBackward finds an index whose
\* rolling value is at or above the threshold, without falling back to the
\* first timestamp, and the time it returns is at or after the time of
\* findSprintStart, so bwdDur >= 0.
C26_BackwardAfterStart ==
  (BackwardDone /\ MedianLevel /\ \A i \in 1 .. N : mag[i] >= 0) =>
    /\ \E i \in 1 .. N :
         /\ AtOrAbove(i)
         /\ bwd.time = timestamps[i]
         /\ \A j \in (i + 1) .. N : ~AtOrAbove(j)
    /\ bwd.time >= sprintStart
    /\ bwd.time - sprintStart >= 0

\* a record whose threshold is below 2.0 g was scanned: the sprint start is
\* at a burst after the first sample and the backward crossing is later
\* still, before the end of the series
C26_Witness ==
  /\ BackwardDone
  /\ MedianLevel
  /\ 10 * START_THRESHOLD[1] * sprintLevel[2] > 9 * sprintLevel[1] * START_THRESHOLD[2]
  /\ sprintStart > timestamps[1]
  /\ bwd.time > sprintStart
  /\ bwd.time < timestamps[N]

-----------------------------------------------------------------------------
(* Properties of loadSprintData *)

LoadDone == pc = "loaded"

\* the two lists hold the same samples the same number of times
SameSamples(raw, rows) ==
  /\ Len(rows) = Len(raw)
  /\ \A i \in 1 .. Len(raw) :
       Cardinality({j \in 1 .. Len(raw) : raw[j] = raw[i]})
         = Cardinality({j \in 1 .. Len(rows) : rows[j] = raw[i]})

NonDecreasing(rows) ==
  \A i \in 1 .. (Len(rows) - 1) : rows[i].timestamp <= rows[i + 1].timestamp

\* C23: for any raw sample list, loadSprintData returns a curve that is a
\* permutation of the input samples with non-decreasing timestamps; every
\* acceleration sample carries mag = sqrt(x^2 + y^2 + z^2), and gyroscope
\* samples carry no magnitude.
C23_SampleLoader ==
  LoadDone =>
    /\ ("accel" \in DOMAIN loaded) = (sprint.accelerationCurve # NoPayload)
    /\ ("gyro" \in DOMAIN loaded) = (sprint.gyroscopeCurve # NoPayload)
    /\ ("accel" \in DOMAIN loaded =>
          /\ SameSamples(sprint.accelerationCurve.rows,
                         [i \in 1 .. Len(loaded.accel) |->
                            Sample(loaded.accel[i].timestamp, loaded.accel[i].accel_x,
                                   loaded.accel[i].accel_y, loaded.accel[i].accel_z)])
          /\ NonDecreasing(loaded.accel)
          /\ \A i \in 1 .. Len(loaded.accel) :
               /\ loaded.accel[i].mag >= 0
               /\ loaded.accel[i].mag * loaded.accel[i].mag
                    = loaded.accel[i].accel_x * loaded.accel[i].accel_x
                    + loaded.accel[i].accel_y * loaded.accel[i].accel_y
                    + loaded.accel[i].accel_z * loaded.accel[i].accel_z)
    /\ ("gyro" \in DOMAIN loaded =>
          /\ SameSamples(sprint.gyroscopeCurve.rows,
                         [i \in 1 .. Len(loaded.gyro) |->
                            Sample(loaded.gyro[i].timestamp, loaded.gyro[i].gyro_x,
                                   loaded.gyro[i].gyro_y, loaded.gyro[i].gyro_z)])
          /\ NonDecreasing(loaded.gyro)
          /\ \A i \in 1 .. Len(loaded.gyro) : "mag" \notin DOMAIN loaded.gyro[i])

\* a list out of order, with two samples at one instant and a sample that is
\* not along an axis, was loaded as both curves of a record
C23_Witness ==
  /\ LoadDone
  /\ DOMAIN loaded = {"accel", "gyro"}
  /\ Len(loaded.accel) = 3
  /\ sprint.accelerationCurve.rows[1].timestamp > sprint.accelerationCurve.rows[2].timestamp
  /\ loaded.accel[1].timestamp = loaded.accel[2].timestamp
  /\ loaded.accel[1] # loaded.accel[2]
  /\ loaded.accel[3].mag = 7 * MagScale
  /\ loaded.accel[3].accel_x = 2 * MagScale

-----------------------------------------------------------------------------
(* Properties of the analysis of records with their curves *)

\* the detection values of a record computed from the record alone
OwnDetection(s) ==
  LET accel == loadSprintData(s).accel
      ts == [k \in 1 .. Len(accel) |-> accel[k].timestamp]
      m == [k \in 1 .. Len(accel) |-> accel[k].mag]
      roll == computeRollingMean(ts, m).rolling
      level == findSprintLevel(ts, roll)
      start == findSprintStart(ts, roll).time
      f == detectForward(ts, roll, level, MinTime(DistanceOr0(s.distance)))
      b == detectBackward(ts, roll, level)
      d == decide(f.time, b.time)
      final == <<d.final[1] - start * d.final[2], d.final[2]>>
  IN  [fwdDur |-> f.time - start, bwdDur |-> b.time - start, finalDur |-> final,
       gap |-> d.gap, decision |-> d.decision,
       plotData |-> [t |-> [k \in 1 .. Len(ts) |-> ts[k] - start], rolling |-> roll,
                     rawMag |-> m, sprintLevel |-> level, threshold |-> f.threshold,
                     fwdTime |-> f.time - start, bwdTime |-> b.time - start,
                     finalTime |-> final]]

DetectionValues(r) ==
  [fwdDur |-> r.fwdDur, bwdDur |-> r.bwdDur, finalDur |-> r.finalDur, gap |-> r.gap,
   decision |-> r.decision, plotData |-> r.plotData]

\* C21: the analysis of a record is a pure function of its own curves: in
\* whatever batch an analysable record stands, and whatever the other records
\* of the batch and their order, analyzeData yields for it the same fwdDur,
\* bwdDur, finalDur, gap, decision and plotData.
C21_RecordIndependence ==
  BatchEnded =>
    \A at \in Positions :
      Analyzable(at) =>
        \E k \in 1 .. Len(results) :
          /\ results[k].at = at
          /\ DetectionValues(results[k]) = OwnDetection(RecordAt(at))

\* n times the sum of squares minus the square of the sum: n ** 2 times the
\* variance of one component of a raw sample list
Spread(rows, Component(_)) ==
  LET n == Len(rows)
      v == [i \in 1 .. n |-> Component(rows[i])]
      vv == [i \in 1 .. n |-> Component(rows[i]) * Component(rows[i])]
  IN  n * SumRange(vv, 1, n) - SumRange(v, 1, n) * SumRange(v, 1, n)

XOf(row) == row.x

YOf(row) == row.y

ZOf(row) == row.z

\* C22: analyzeData attaches a gyroscope series to a result if and only if
\* the record's gyroscope curve has strictly more than 100 samples (exactly
\* 100 gives none, although exactly 100 acceleration samples are accepted);
\* when attached, dominantAxis names an axis of maximal variance, ties going
\* to x, then y, then z.
C22_GyroGating ==
  \A k \in 1 .. Len(results) :
    LET record == RecordAt(results[k].at)
        gyro == record.gyroscopeCurve.rows
        vx == Spread(gyro, XOf)
        vy == Spread(gyro, YOf)
        vz == Spread(gyro, ZOf)
    IN  /\ record.accelerationCurve.samples >= 100
        /\ (results[k].gyroData # NoGyroData) = (Len(gyro) > 100)
        /\ (Len(gyro) > 100 =>
              /\ Len(results[k].gyroData.x) = Len(gyro)
              /\ results[k].gyroData.dominantAxis \in {"x", "y", "z"}
              /\ (results[k].gyroData.dominantAxis = "x") = (vx >= vy /\ vx >= vz)
              /\ (results[k].gyroData.dominantAxis = "y") = (vy > vx /\ vy >= vz)
              /\ (results[k].gyroData.dominantAxis = "z") = (vz > vx /\ vz > vy))

\* a file was analysed whose first record, of exactly 100 acceleration and
\* 100 gyroscope samples, got a result without a gyroscope series, and whose
\* second, of 101 gyroscope samples with y and z level, got the label y
C22_Witness ==
  /\ pc = "returned"
  /\ Len(results) = 2
  /\ RecordAt(results[1].at).accelerationCurve.samples = 100
  /\ RecordAt(results[1].at).gyroscopeCurve.samples = 100
  /\ results[1].gyroData = NoGyroData
  /\ RecordAt(results[2].at).gyroscopeCurve.samples = 101
  /\ Spread(RecordAt(results[2].at).gyroscopeCurve.rows, YOf)
       = Spread(RecordAt(results[2].at).gyroscopeCurve.rows, ZOf)
  /\ results[2].gyroData.dominantAxis = "y"

-----------------------------------------------------------------------------
(* Properties of the Svelte page *)

\* C28: after any sequence of file loads (successful, empty or failing),
\* Firestore loads (successful or failing) and row clicks, selectedIndex is -1
\* exactly when results is empty and otherwise 0 <= selectedIndex <
\* results.length, so getSelectedResult returns null only when there are no
\* results.
C28_SelectionInvariant ==
  pc = "page" =>
    /\ (appState.selectedIndex = 0 - 1) = (appState.results = <<>>)
    /\ (appState.results # <<>> =>
          appState.selectedIndex >= 0 /\ appState.selectedIndex < Len(appState.results))
    /\ (getSelectedResult = NoResult) = (appState.results = <<>>)

\* a Firestore load failed, a file came out empty, a file gave two results
\* and the second row was clicked
C28_Witness ==
  /\ pc = "page"
  /\ Len(settled) = 3
  /\ settled[1].load.kind = "firestore"
  /\ settled[1].outcome = "threw"
  /\ settled[2].outcome = "empty"
  /\ settled[3].outcome = "rows"
  /\ Len(appState.results) = 2
  /\ appState.selectedIndex = 1
  /\ getSelectedResult = appState.results[2]

\* the load that settles in this step
Settling == settled'[Len(settled')]

OnlyStatusChanges == appState' = [appState EXCEPT !.status = appState'.status]

PageIsCleared ==
  /\ appState'.results = <<>>
  /\ appState'.selectedIndex = 0 - 1
  /\ appState'.fileName = ""

FirestoreFailureLeavesPage ==
  (Settling.load.kind = "firestore" /\ Settling.outcome = "threw") =>
    /\ appState'.results = appState.results
    /\ appState'.selectedIndex = appState.selectedIndex
    /\ appState'.fileName = appState.fileName
    /\ appState'.isLoading = FALSE
    /\ appState' = [appState EXCEPT !.status = appState'.status, !.isLoading = FALSE]

\* C29: when handleFirestore fails, results, selectedIndex and fileName are
\* left unchanged, only the status text changes, and isLoading is false once
\* the call settles; a failed file load, by contrast, resets results to
\* empty, selectedIndex to -1 and fileName to ''.
C29_FailedLoads ==
  [][Len(settled') = Len(settled) + 1 =>
       /\ FirestoreFailureLeavesPage
       /\ ((Settling.load.kind = "file" /\ Settling.outcome \in {"threw", "unreadable"}) =>
             PageIsCleared)]_vars

\* C29, amended: as above for handleFirestore; a file load that fails in
\* parseAndAnalyze resets results to empty, selectedIndex to -1 and fileName
\* to '', while a file that cannot be read changes the status text only.
C29_FailedLoadsByCause ==
  [][Len(settled') = Len(settled) + 1 =>
       /\ FirestoreFailureLeavesPage
       /\ ((Settling.load.kind = "file" /\ Settling.outcome = "threw") => PageIsCleared)
       /\ ((Settling.load.kind = "file" /\ Settling.outcome = "unreadable") =>
             OnlyStatusChanges)]_vars

\* a Firestore load failed while the results of a file, read in the
\* meantime, were shown: they are still shown, and isLoading is false
C29_Witness ==
  /\ pc = "page"
  /\ Len(settled) = 2
  /\ settled[1].load.kind = "file"
  /\ settled[1].outcome = "rows"
  /\ settled[2].load.kind = "firestore"
  /\ settled[2].outcome = "threw"
  /\ settled[2].load.id < settled[1].load.id
  /\ Len(appState.results) = 2
  /\ appState.fileName = settled[1].load.name
  /\ appState.status = Status("Firestore error", "")
  /\ ~appState.isLoading

\* the last settled load that assigned results, fileName and selectedIndex
\* (0 when none has)
LastChanging ==
  LET changing == {k \in 1 .. Len(settled) :
                     \/ settled[k].outcome \in {"rows", "empty"}
                     \/ (settled[k].load.kind = "file" /\ settled[k].outcome = "threw")}
  IN  IF changing = {} THEN 0 ELSE Greatest(changing)

\* C30: with a file read and a Firestore fetch (or two file reads) in flight
\* at once and settling in any order, in every reachable state fileName is
\* non-empty exactly when results is non-empty, and results, fileName and
\* selectedIndex come from one load: the last to settle among those that
\* changed them.
C30_AtomicInstall ==
  pc = "page" =>
    /\ (appState.fileName # "") = (appState.results # <<>>)
    /\ IF LastChanging = 0 \/ settled[LastChanging].outcome # "rows"
       THEN /\ appState.results = <<>>
            /\ appState.fileName = ""
            /\ appState.selectedIndex = 0 - 1
       ELSE /\ appState.results # <<>>
            /\ \A k \in 1 .. Len(appState.results) :
                 appState.results[k].load = settled[LastChanging].load.id
            /\ appState.fileName = settled[LastChanging].load.name
            /\ appState.selectedIndex \in 0 .. (Len(appState.results) - 1)

\* a Firestore fetch and then a file read were started, the file settled
\* first and the fetch second, both with results: the page shows the fetch
C30_Witness ==
  /\ pc = "page"
  /\ Len(settled) = 2
  /\ settled[1].load = [id |-> 2, kind |-> "file", name |-> "a.sprintzero"]
  /\ settled[1].outcome = "rows"
  /\ settled[2].load = [id |-> 1, kind |-> "firestore", name |-> "Firestore"]
  /\ settled[2].outcome = "rows"
  /\ appState.fileName = "Firestore"
  /\ \A k \in 1 .. Len(appState.results) : appState.results[k].load = 1

====
